---------------------------- MODULE Spec2Model ----------------------------
(***************************************************************************)
(* A model of qppsim, a discrete event simulator of the downlink           *)
(* scheduling of an LTE cell: the event loop (Des), the packets and the    *)
(* bearers' RLC queues, the UEs and their applications, the Round-Robin    *)
(* scheduler with its HARQ retransmissions, the sample access control and  *)
(* the "pre-empt all" pre-emption policy, and the default QoS monitor.     *)
(***************************************************************************)
EXTENDS Integers, Sequences, FiniteSets, TLC

(***************************************************************************)
(* Program constants.                                                      *)
(***************************************************************************)
RTX_DELAY == 8

TX_DELAY == 4

NETWORK_OVERHEAD == 30

MAX_RTX == 4

PREEMPTION_RBS_LIMIT == 50000

APP_SETUP_LEAD == 100

ONE_SECOND == 1000

DEFAULT_QCI == 9

DEFAULT_ARP == 11

(***************************************************************************)
(* Generic helpers.                                                        *)
(***************************************************************************)
RECURSIVE SumSeq(_)
SumSeq(s) == IF s = << >> THEN 0 ELSE Head(s) + SumSeq(Tail(s))

RECURSIVE SetToSortedSeq(_)
SetToSortedSeq(S) ==
    IF S = {} THEN << >>
    ELSE LET m == CHOOSE x \in S : \A y \in S : x <= y
         IN  <<m>> \o SetToSortedSeq(S \ {m})

RemoveAt(s, i) == SubSeq(s, 1, i - 1) \o SubSeq(s, i + 1, Len(s))

Min2(a, b) == IF a < b THEN a ELSE b

(***************************************************************************)
(* Time.nearest_second: Python's round(ms, -3), which rounds a tie to the  *)
(* even multiple of 1000.                                                  *)
(***************************************************************************)
NearestSecond(ms) ==
    LET q == ms \div ONE_SECOND
        r == ms % ONE_SECOND
    IN  IF r < 500 THEN q * ONE_SECOND
        ELSE IF r > 500 THEN (q + 1) * ONE_SECOND
        ELSE IF q % 2 = 0 THEN q * ONE_SECOND ELSE (q + 1) * ONE_SECOND

(***************************************************************************)
(* Packet.  A packet is a record; _pending is the stored field the         *)
(* scheduler reads through pending_size().                                 *)
(***************************************************************************)
NewPacket(pid, size, tx_time, app) ==
    [pid |-> pid, size |-> size, tx_size |-> 0, rtx_waiting_size |-> 0,
     pending |-> size, tx_time |-> tx_time, app |-> app]

\* Packet.add_overhead: only _size grows, _pending is left as it was.
add_overhead(p, overhead) == [p EXCEPT !.size = p.size + overhead]

remove_overhead(p, overhead) == [p EXCEPT !.size = p.size - overhead]

\* The tx_size setter: [ok, p]; ok is FALSE when its assertion fails, and
\* then the packet is unchanged.
set_tx_size(p, v) ==
    IF v + p.rtx_waiting_size <= p.size
    THEN [ok |-> TRUE,
          p |-> [p EXCEPT !.pending = p.size - v - p.rtx_waiting_size,
                          !.tx_size = v]]
    ELSE [ok |-> FALSE, p |-> p]

\* The rtx_waiting_size setter.
set_rtx_waiting_size(p, v) ==
    IF v + p.tx_size <= p.size
    THEN [ok |-> TRUE,
          p |-> [p EXCEPT !.pending = p.size - p.tx_size - v,
                          !.rtx_waiting_size = v]]
    ELSE [ok |-> FALSE, p |-> p]

transmit_bytes_unclamped(p, amount, rtx) ==
    LET Done(r) == [ok |-> r.ok, used |-> amount, p |-> r.p]
    IN  Done(IF rtx THEN set_rtx_waiting_size(p, p.rtx_waiting_size + amount)
                    ELSE set_tx_size(p, p.tx_size + amount))

\* Packet.transmit_bytes: [ok, used, p].
transmit_bytes(p, amount, rtx) ==
    LET used == IF amount > p.pending THEN p.pending ELSE amount
        Done(r) == [ok |-> r.ok, used |-> used, p |-> r.p]
    IN  Done(IF rtx THEN set_rtx_waiting_size(p, p.rtx_waiting_size + used)
                    ELSE set_tx_size(p, p.tx_size + used))

\* Packet.retransmit_bytes: [ok, used, p].
retransmit_bytes(p, amount) ==
    LET used == IF amount > p.rtx_waiting_size THEN p.rtx_waiting_size ELSE amount
        Done(r2) == [ok |-> r2.ok, used |-> used, p |-> r2.p]
        Then(r1) == IF ~r1.ok THEN [ok |-> FALSE, used |-> used, p |-> p]
                    ELSE Done(set_tx_size(r1.p, r1.p.tx_size + used))
    IN  Then(set_rtx_waiting_size(p, p.rtx_waiting_size - used))

(***************************************************************************)
(* Events.  Every event has the same fields; the ones a kind does not use  *)
(* hold the empty values below.  cause is a history field of a delivery    *)
(* event: what completed the packet.  seq is a history field too: the      *)
(* rank of the event among those Des.add_event inserted, 0 before that.    *)
(***************************************************************************)
NoPacket == NewPacket(0, 0, 0, "none")

NoPar == [qci |-> 0, gbr |-> 0, mbr |-> 0, pci |-> FALSE, pvi |-> FALSE, arp |-> 0,
          default_bearer |-> FALSE]

NoCause == [by |-> "none", attempt |-> 0, t0 |-> 0]

Event(time, kind, app, ue, bid, pkt, par, cause) ==
    [time |-> time, kind |-> kind, app |-> app, ue |-> ue, bid |-> bid,
     pkt |-> pkt, par |-> par, cause |-> cause, seq |-> 0]

ReceiveEvent(time, pkt, cause) ==
    Event(time, "receive_packet", pkt.app, 0, 0, pkt, NoPar, cause)

InsertEvent_at_front(evs, e) == <<e>> \o evs

InsertEvent_before_equal(evs, e) ==
    LET n == Cardinality({i \in 1..Len(evs) : evs[i].time < e.time})
    IN  SubSeq(evs, 1, n) \o <<e>> \o SubSeq(evs, n + 1, Len(evs))

\* SortedList.add: after every element that is not greater (Event.__lt__
\* compares the times alone), so equal times keep their insertion order.
RECURSIVE InsertEvent(_, _)
InsertEvent(evs, e) ==
    IF evs = << >> THEN <<e>>
    ELSE IF e.time < Head(evs).time THEN <<e>> \o evs
    ELSE <<Head(evs)>> \o InsertEvent(Tail(evs), e)

RECURSIVE InsertEvents(_, _)
InsertEvents(evs, new) ==
    IF new = << >> THEN evs
    ELSE InsertEvents(InsertEvent(evs, Head(new)), Tail(new))

(***************************************************************************)
(* Bearer.  loss and throughput are maps from a time (a multiple of one    *)
(* second) to bytes.                                                       *)
(***************************************************************************)
AddTo(map, key, v) ==
    IF key \in DOMAIN map THEN [map EXCEPT ![key] = @ + v] ELSE map @@ (key :> v)

NewBearer(qci, gbr, mbr, pvi, pci, arp, queue_size, port) ==
    [qci |-> qci, gbr |-> gbr, mbr |-> mbr, pvi |-> pvi, pci |-> pci, arp |-> arp,
     queue_size |-> queue_size, queue |-> << >>, port |-> port,
     loss |-> << >>, throughput |-> << >>]

RECURSIVE queue_used_of(_)
queue_used_of(q) ==
    IF q = << >> THEN 0
    ELSE (Head(q).size - Head(q).tx_size) + queue_used_of(Tail(q))

\* Bearer.queue_used
queue_used(b) == queue_used_of(b.queue)

RECURSIVE pending_of(_)
pending_of(q) == IF q = << >> THEN 0 ELSE Head(q).pending + pending_of(Tail(q))

\* Bearer.pending_size
pending_size(b) == pending_of(b.queue)

add_packet_unchecked(b, packet, current_time) == [b EXCEPT !.queue = Append(@, packet)]

add_packet_silent(b, packet, current_time) ==
    IF queue_used(b) + packet.size <= b.queue_size
    THEN [b EXCEPT !.queue = Append(@, packet)]
    ELSE b

\* Bearer.add_packet
add_packet(b, packet, current_time) ==
    IF queue_used(b) + packet.size <= b.queue_size
    THEN [b EXCEPT !.queue = Append(@, packet)]
    ELSE [b EXCEPT !.loss = AddTo(@, NearestSecond(current_time), packet.size)]

RECURSIVE tx_loop_on_no_pending(_, _, _, _, _, _, _)
tx_loop_on_no_pending(b, index, amount_remaining, rtx, current_time, evs, cause) ==
    LET Step(r) ==
          LET q1 == [b.queue EXCEPT ![index] = r.p]
              thr == AddTo(b.throughput, NearestSecond(current_time), r.used)
          IN  IF ~r.ok THEN [ok |-> FALSE, b |-> b, evs |-> evs]
              ELSE IF rtx
              THEN tx_loop_on_no_pending([b EXCEPT !.queue = q1], index + 1,
                           amount_remaining - r.used, rtx, current_time, evs, cause)
              ELSE IF r.p.pending = 0
              THEN tx_loop_on_no_pending([b EXCEPT !.queue = RemoveAt(q1, index),
                                     !.throughput = thr],
                           index, amount_remaining - r.used, rtx, current_time,
                           Append(evs, ReceiveEvent(current_time + TX_DELAY, r.p, cause)),
                           cause)
              ELSE tx_loop_on_no_pending([b EXCEPT !.queue = q1, !.throughput = thr],
                           index + 1, amount_remaining - r.used, rtx, current_time,
                           evs, cause)
    IN  IF ~(amount_remaining > 0 /\ index <= Len(b.queue))
        THEN [ok |-> TRUE, b |-> b, evs |-> evs]
        ELSE Step(transmit_bytes(b.queue[index], amount_remaining, rtx))

\* The loop of Bearer.tx from position index on: [ok, b, evs].
RECURSIVE tx_loop(_, _, _, _, _, _, _)
tx_loop(b, index, amount_remaining, rtx, current_time, evs, cause) ==
    LET Step(r) ==
          LET q1 == [b.queue EXCEPT ![index] = r.p]
              thr == AddTo(b.throughput, NearestSecond(current_time), r.used)
          IN  IF ~r.ok THEN [ok |-> FALSE, b |-> b, evs |-> evs]
              ELSE IF rtx
              THEN tx_loop([b EXCEPT !.queue = q1], index + 1,
                           amount_remaining - r.used, rtx, current_time, evs, cause)
              ELSE IF r.p.tx_size = r.p.size
              THEN tx_loop([b EXCEPT !.queue = RemoveAt(q1, index),
                                     !.throughput = thr],
                           index, amount_remaining - r.used, rtx, current_time,
                           Append(evs, ReceiveEvent(current_time + TX_DELAY, r.p, cause)),
                           cause)
              ELSE tx_loop([b EXCEPT !.queue = q1, !.throughput = thr],
                           index + 1, amount_remaining - r.used, rtx, current_time,
                           evs, cause)
    IN  IF ~(amount_remaining > 0 /\ index <= Len(b.queue))
        THEN [ok |-> TRUE, b |-> b, evs |-> evs]
        ELSE Step(transmit_bytes(b.queue[index], amount_remaining, rtx))

\* Bearer.tx: [ok, b, evs], evs the delivery events it schedules, in order.
tx(b, amount, rtx, current_time) ==
    tx_loop(b, 1, amount, rtx, current_time, << >>, [by |-> "tx", attempt |-> 0, t0 |-> current_time])

\* The loop of Bearer.rtx: [ok, b, evs].
RECURSIVE rtx_loop(_, _, _, _, _, _)
rtx_loop(b, index, amount_remaining, current_time, evs, cause) ==
    LET Step(r) ==
          LET q1 == [b.queue EXCEPT ![index] = r.p]
          IN  IF ~r.ok THEN [ok |-> FALSE, b |-> b, evs |-> evs]
              ELSE IF r.p.tx_size = r.p.size
              THEN rtx_loop([b EXCEPT !.queue = RemoveAt(q1, index)], index,
                            amount_remaining - r.used, current_time,
                            Append(evs, ReceiveEvent(current_time + TX_DELAY, r.p, cause)),
                            cause)
              ELSE rtx_loop([b EXCEPT !.queue = q1], index + 1,
                            amount_remaining - r.used, current_time, evs, cause)
    IN  IF ~(amount_remaining > 0 /\ index <= Len(b.queue))
        THEN [ok |-> TRUE, b |-> b, evs |-> evs]
        ELSE Step(retransmit_bytes(b.queue[index], amount_remaining))

\* Bearer.rtx: [ok, b, evs]; the whole amount is credited to the throughput.
bearer_rtx(b, amount, current_time, cause) ==
    LET Credit(r) ==
          IF ~r.ok THEN r
          ELSE [r EXCEPT !.b.throughput = AddTo(@, NearestSecond(current_time), amount)]
    IN  Credit(rtx_loop(b, 1, amount, current_time, << >>, cause))

(***************************************************************************)
(* Amc, the adaptive modulation and coding tables.  TBS_FOR_MCS is the     *)
(* transport block size in bytes of n RBs; get_rbs_for_rate is the number  *)
(* of RBs per second that sustain a bit rate, <<found, count>>.            *)
(***************************************************************************)
TBS_ROW == <<15, 32, 49, 67, 85, 101, 121, 137, 157, 173>>

TBS_FOR_MCS(mcs, n) ==
    IF n = 0 THEN 0
    ELSE IF n <= Len(TBS_ROW) THEN TBS_ROW[n]
    ELSE TBS_ROW[Len(TBS_ROW)] + (n - Len(TBS_ROW)) * 17

MAX_TABLE_RATE == 6000000

get_rbs_for_rate(mcs, rate) ==
    IF rate <= MAX_TABLE_RATE
    THEN <<TRUE, (rate + 8 * TBS_FOR_MCS(mcs, 1) - 1) \div (8 * TBS_FOR_MCS(mcs, 1))>>
    ELSE <<FALSE, 0>>

(***************************************************************************)
(* The bearer list, the UEs and the applications, as one record W:         *)
(*   bearers  <<imsi, bid>> -> bearer  (BearerList.bearers)                *)
(*   ues      imsi -> UE                                                   *)
(*   apps     name -> application                                          *)
(*   err      "none", or the exception that ended the run                  *)
(*   cfg      the configuration of the Des and of its policies             *)
(* and, written but never read by the simulation:                          *)
(*   added    how many events Des.add_event inserted                       *)
(*   offered  the events handed to Des.add_event by the operation under    *)
(*            way, in order                                                *)
(***************************************************************************)
Raise(W, e) == IF W.err = "none" THEN [W EXCEPT !.err = e] ELSE W

UeBids(bearers, imsi) == {k[2] : k \in {x \in DOMAIN bearers : x[1] = imsi}}

UeList(bearers) == SetToSortedSeq({k[1] : k \in DOMAIN bearers})

\* The keys of the bearer list in its order: IMSI ascending, then BID.
RECURSIVE KeysOfUes(_, _)
KeysOfUes(bearers, ueseq) ==
    IF ueseq = << >> THEN << >>
    ELSE LET imsi == Head(ueseq)
             bids == SetToSortedSeq(UeBids(bearers, imsi))
         IN  [i \in 1..Len(bids) |-> <<imsi, bids[i]>>] \o KeysOfUes(bearers, Tail(ueseq))

BearerKeys(bearers) == KeysOfUes(bearers, UeList(bearers))

Restrict(f, S) == [x \in S |-> f[x]]

\* AccessControlBase.get_used_gbr_rbs
RECURSIVE used_gbr_of(_, _, _)
used_gbr_of(W, keys, used) ==
    LET Count(b, fc) == IF b.qci < 5 /\ fc[1] THEN used + fc[2] ELSE used
    IN  IF keys = << >> THEN used
        ELSE used_gbr_of(W, Tail(keys),
                         Count(W.bearers[Head(keys)],
                               get_rbs_for_rate(W.ues[Head(keys)[1]].mcs,
                                                W.bearers[Head(keys)].gbr)))

get_used_gbr_rbs(W) == used_gbr_of(W, BearerKeys(W.bearers), 0)

\* AccessControlBase.get_needed_gbr_rbs
get_needed_gbr_rbs(W, gbr, mcs, qci) ==
    LET Needed(fc) == IF fc[1] THEN fc[2] ELSE W.cfg.num_rbs * 1000 + 1
    IN  IF qci < 5 THEN Needed(get_rbs_for_rate(mcs, gbr)) ELSE 0

teardown_unguarded(W, imsi, bid) ==
    LET apps1 == [a \in DOMAIN W.apps |->
                    IF a \in W.ues[imsi].apps /\ W.apps[a].bearer = bid
                    THEN [W.apps[a] EXCEPT !.bearer = 1] ELSE W.apps[a]]
    IN  [W EXCEPT !.apps = apps1,
                  !.bearers = Restrict(@, DOMAIN @ \ {<<imsi, bid>>}),
                  !.ues[imsi].bearer_count = @ - 1]

teardown_without_rebinding(W, imsi, bid) ==
    IF W.err # "none" THEN W
    ELSE IF bid = 1 THEN Raise(W, "DefaultBearerTeardown")
    ELSE IF <<imsi, bid>> \notin DOMAIN W.bearers THEN Raise(W, "BearerNotInList")
    ELSE [W EXCEPT !.bearers = Restrict(@, DOMAIN @ \ {<<imsi, bid>>}),
                   !.ues[imsi].bearer_count = @ - 1]

\* Bearer.teardown, with Ue.teardown_bearer and
\* BearerList.remove_dedicated_bearer, which it calls.
teardown(W, imsi, bid) ==
    IF W.err # "none" THEN W
    ELSE IF bid = 1 THEN Raise(W, "DefaultBearerTeardown")
    ELSE LET apps1 == [a \in DOMAIN W.apps |->
                         IF a \in W.ues[imsi].apps /\ W.apps[a].bearer = bid
                         THEN [W.apps[a] EXCEPT !.bearer = 1] ELSE W.apps[a]]
             W1 == [W EXCEPT !.apps = apps1]
         IN  IF <<imsi, bid>> \notin DOMAIN W.bearers
             THEN Raise(W1, "BearerNotInList")
             ELSE [W1 EXCEPT !.bearers = Restrict(@, DOMAIN @ \ {<<imsi, bid>>}),
                             !.ues[imsi].bearer_count = @ - 1]

RECURSIVE teardown_all(_, _)
teardown_all(W, keys) ==
    IF keys = << >> THEN W
    ELSE teardown_all(teardown(W, Head(keys)[1], Head(keys)[2]), Tail(keys))

(***************************************************************************)
(* Pre-emption policies.                                                   *)
(***************************************************************************)
Eligible_ignoring_pvi(W, k, arp) ==
    W.bearers[k].qci < 5 /\ W.bearers[k].arp > arp

Eligible(W, k, arp) ==
    W.bearers[k].pvi /\ W.bearers[k].qci < 5 /\ W.bearers[k].arp > arp

Candidates(W, arp) ==
    SelectSeq(BearerKeys(W.bearers), LAMBDA k : Eligible(W, k, arp))

RECURSIVE CandidateRbs(_, _)
CandidateRbs(W, keys) ==
    IF keys = << >> THEN 0
    ELSE get_rbs_for_rate(W.ues[Head(keys)[1]].mcs, W.bearers[Head(keys)].gbr)[2]
         + CandidateRbs(W, Tail(keys))

\* PreemptionSamplePreemptAll.attempt_preemption (PreemptionDummy's when the
\* dummy policy is configured): [success, preempted].
attempt_preemption(W, new_bearer_id, new_bearer_arp, rbs_needed, rbs_used) ==
    LET Decide(candidates, success) ==
          [success |-> success, preempted |-> IF success THEN candidates ELSE << >>]
        Try(candidates) ==
          Decide(candidates,
                 rbs_used - CandidateRbs(W, candidates) + rbs_needed
                     <= PREEMPTION_RBS_LIMIT)
    IN  IF W.cfg.preemption_policy = "dummy" THEN [success |-> FALSE, preempted |-> << >>]
        ELSE Try(Candidates(W, new_bearer_arp))

\* PreemptionSamplePreemptAll.qos_preemption: [success, preempted].
qos_preemption(W, ue_imsi, bearer_id, bearer_arp) ==
    LET Try(candidates) == [success |-> Len(candidates) > 0, preempted |-> candidates]
    IN  IF W.cfg.preemption_policy = "dummy" THEN [success |-> FALSE, preempted |-> << >>]
        ELSE Try(Candidates(W, bearer_arp))

(***************************************************************************)
(* Access control.                                                         *)
(***************************************************************************)
activation_success_strict(qci, used_rbs, needed_rbs, num_rbs) ==
    (qci > 5) \/ (used_rbs + needed_rbs < num_rbs * 1000)

\* The acceptance test of AccessControlSample.check_bearer_activation.
activation_success(qci, used_rbs, needed_rbs, num_rbs) ==
    (qci > 5) \/ (used_rbs + needed_rbs <= num_rbs * 1000)

\* check_bearer_activation of the configured policy: the new W, success, and
\* what the check computed and did.
check_bearer_activation(W, gbr, mbr, qci, arp, pvi, pci, imsi, bid, mcs) ==
    LET Result(W1, success, needed_rbs, used_rbs, direct, tried, preempted) ==
          [W |-> W1, success |-> success, needed |-> needed_rbs, used |-> used_rbs,
           direct |-> direct, tried |-> tried, preempted |-> preempted]
        Preempt(needed_rbs, used_rbs, pre) ==
          Result(IF pre.success THEN teardown_all(W, pre.preempted) ELSE W,
                 pre.success, needed_rbs, used_rbs, FALSE, TRUE, pre.preempted)
        Decide(needed_rbs, used_rbs, direct) ==
          IF W.cfg.access_control = "traceonly"
          THEN Result(W, TRUE, needed_rbs, used_rbs, TRUE, FALSE, << >>)
          ELSE IF direct
          THEN Result(W, TRUE, needed_rbs, used_rbs, TRUE, FALSE, << >>)
          ELSE IF ~pci
          THEN Result(W, FALSE, needed_rbs, used_rbs, FALSE, FALSE, << >>)
          ELSE Preempt(needed_rbs, used_rbs,
                       attempt_preemption(W, bid, arp, needed_rbs, used_rbs))
        Check(needed_rbs, used_rbs) ==
          Decide(needed_rbs, used_rbs,
                 activation_success(qci, used_rbs, needed_rbs, W.cfg.num_rbs))
    IN  Check(get_needed_gbr_rbs(W, gbr, mcs, qci), get_used_gbr_rbs(W))

\* Ue.get_bid: the UE's last_bid grows by one; the BID is the new last_bid.
get_bid(W, imsi) == [W EXCEPT !.ues[imsi].last_bid = @ + 1]

\* Bearer.__init__ and the insertion in BearerList.bearers.
create_bearer(W, imsi, qci, gbr, mbr, pvi, pci, arp, queue_size, port) ==
    LET Insert(W1) ==
          [W1 EXCEPT !.bearers = @ @@
               (<<imsi, W1.ues[imsi].last_bid>> :>
                    NewBearer(qci, gbr, mbr, pvi, pci, arp, queue_size, port))]
    IN  Insert(get_bid(W, imsi))

\* BearerList.add_default_bearer
add_default_bearer(W, imsi, queue_size) ==
    LET Then(c) ==
          IF c.success
          THEN create_bearer(c.W, imsi, W.cfg.default_qci, 0, W.cfg.default_mbr,
                             FALSE, FALSE, W.cfg.default_arp, queue_size, 0)
          ELSE Raise(c.W, "RuntimeError")
    IN  Then(check_bearer_activation(W, 0, W.cfg.default_mbr, W.cfg.default_qci,
                                     W.cfg.default_arp, FALSE, FALSE, imsi, 1,
                                     W.ues[imsi].mcs))

\* Ue.__init__
NewUe(W, imsi, mcs, queue_size) ==
    add_default_bearer(
        [W EXCEPT !.ues = @ @@ (imsi :> [mcs |-> mcs, queue_size |-> queue_size,
                                         apps |-> {}, last_bid |-> 0,
                                         next_port |-> imsi * 100,
                                         bearer_count |-> 0])],
        imsi, queue_size)

add_dedicated_bearer_unchecked(W, imsi, queue_size, qci, gbr, mbr, pci, pvi, arp, port) ==
    LET Created(W2, c) == [W |-> W2, bid |-> W2.ues[imsi].last_bid, chk |-> c]
        Then(c) ==
          IF c.W.err # "none" THEN [W |-> c.W, bid |-> 0, chk |-> c]
          ELSE Created(create_bearer(c.W, imsi, qci, gbr, mbr, pvi, pci, arp,
                                     queue_size, port), c)
        Check(W1) ==
          Then(check_bearer_activation(W1, gbr, mbr, qci, arp, pvi, pci, imsi,
                                       W1.ues[imsi].last_bid, W1.ues[imsi].mcs))
    IN  Check(get_bid(W, imsi))

\* BearerList.add_dedicated_bearer: [W, bid, chk]; bid is 0 for None.
add_dedicated_bearer(W, imsi, queue_size, qci, gbr, mbr, pci, pvi, arp, port) ==
    LET Created(W2, c) == [W |-> W2, bid |-> W2.ues[imsi].last_bid, chk |-> c]
        Then(c) ==
          IF c.W.err # "none" \/ ~c.success THEN [W |-> c.W, bid |-> 0, chk |-> c]
          ELSE Created(create_bearer(c.W, imsi, qci, gbr, mbr, pvi, pci, arp,
                                     queue_size, port), c)
        Check(W1) ==
          Then(check_bearer_activation(W1, gbr, mbr, qci, arp, pvi, pci, imsi,
                                       W1.ues[imsi].last_bid, W1.ues[imsi].mcs))
    IN  Check(get_bid(W, imsi))

NoChk == [checked |-> FALSE, success |-> FALSE, needed |-> 0, used |-> 0,
          direct |-> FALSE, tried |-> FALSE, preempted |-> << >>]

ChkOf(c) == [checked |-> TRUE, success |-> c.success, needed |-> c.needed,
             used |-> c.used, direct |-> c.direct, tried |-> c.tried,
             preempted |-> c.preempted]

\* Ue.add_app: [W, bid, chk].
add_app(W, imsi, app, default_bearer) ==
    LET ue == W.ues[imsi]
        pr == W.cfg.priority
        Bind(W2, b, chk) ==
          IF W2.err # "none" THEN [W |-> W2, bid |-> 0, chk |-> chk]
          ELSE [W |-> [W2 EXCEPT !.apps[app].bearer = b,
                                 !.apps[app].ue = imsi,
                                 !.ues[imsi].apps = @ \cup {app}],
                bid |-> b, chk |-> chk]
        Dedicated(r) ==
          IF r.bid = 0 THEN Bind(r.W, 1, ChkOf(r.chk))
          ELSE Bind([r.W EXCEPT !.ues[imsi].next_port = @ + 1,
                                !.ues[imsi].bearer_count = @ + 1],
                    r.bid, ChkOf(r.chk))
    IN  IF ~(ue.next_port < (imsi + 1) * 100)
        THEN [W |-> Raise(W, "TooManyApplications"), bid |-> 0, chk |-> NoChk]
        ELSE IF ~(~default_bearer \/ ue.bearer_count < 11)
        THEN [W |-> Raise(W, "TooManyBearers"), bid |-> 0, chk |-> NoChk]
        ELSE IF default_bearer THEN Bind(W, 1, NoChk)
        ELSE Dedicated(add_dedicated_bearer(W, imsi, ue.queue_size, pr.qci, pr.gbr,
                                            pr.mbr, pr.pci, pr.pvi, pr.arp,
                                            ue.next_port))

add_bearer_uncounted(W, imsi, qci, gbr, mbr, pci, pvi, arp) ==
    LET ue == W.ues[imsi]
        Then(r) ==
          IF r.bid = 0 THEN [W |-> r.W, bid |-> 0, chk |-> ChkOf(r.chk)]
          ELSE [W |-> [r.W EXCEPT !.ues[imsi].next_port = @ + 1],
                bid |-> r.bid, chk |-> ChkOf(r.chk)]
    IN  IF ~(ue.next_port < (imsi + 1) * 100)
        THEN [W |-> Raise(W, "TooManyApplications"), bid |-> 0, chk |-> NoChk]
        ELSE IF ~(ue.bearer_count < 11)
        THEN [W |-> Raise(W, "TooManyBearers"), bid |-> 0, chk |-> NoChk]
        ELSE Then(add_dedicated_bearer(W, imsi, ue.queue_size, qci, gbr, mbr,
                                       pci, pvi, arp, ue.next_port))

\* Ue.add_bearer: [W, bid, chk]; bid is 0 for None.
add_bearer(W, imsi, qci, gbr, mbr, pci, pvi, arp) ==
    LET ue == W.ues[imsi]
        Then(r) ==
          IF r.bid = 0 THEN [W |-> r.W, bid |-> 0, chk |-> ChkOf(r.chk)]
          ELSE [W |-> [r.W EXCEPT !.ues[imsi].next_port = @ + 1,
                                  !.ues[imsi].bearer_count = @ + 1],
                bid |-> r.bid, chk |-> ChkOf(r.chk)]
    IN  IF ~(ue.next_port < (imsi + 1) * 100)
        THEN [W |-> Raise(W, "TooManyApplications"), bid |-> 0, chk |-> NoChk]
        ELSE IF ~(ue.bearer_count < 11)
        THEN [W |-> Raise(W, "TooManyBearers"), bid |-> 0, chk |-> NoChk]
        ELSE Then(add_dedicated_bearer(W, imsi, ue.queue_size, qci, gbr, mbr,
                                       pci, pvi, arp, ue.next_port))

\* Application.change_bearer
change_bearer(W, app, new_bid) ==
    LET Then(W1) == IF W1.err # "none" THEN W1 ELSE [W1 EXCEPT !.apps[app].bearer = new_bid]
    IN  Then(IF W.apps[app].bearer = 1 THEN teardown(W, W.apps[app].ue, 1) ELSE W)

\* Des.do_activate_bearer: [W, bid, chk].
do_activate_bearer(W, app, par) ==
    LET Then(r) ==
          IF r.W.err # "none" THEN r
          ELSE IF r.bid = 0 THEN [r EXCEPT !.W = Raise(r.W, "AttributeError")]
          ELSE [r EXCEPT !.W = change_bearer(r.W, app, r.bid)]
    IN  IF W.apps[app].bearer = 0
        THEN [W |-> Raise(W, "AttributeError"), bid |-> 0, chk |-> NoChk]
        ELSE Then(add_bearer(W, W.apps[app].ue, par.qci, par.gbr, par.mbr,
                             par.pci, par.pvi, par.arp))

\* Des.do_deactivate_bearer
do_deactivate_bearer(W, imsi, bid) ==
    IF <<imsi, bid>> \notin DOMAIN W.bearers THEN Raise(W, "KeyError")
    ELSE teardown(W, imsi, bid)

\* Application.stop_app
stop_app(W, app) ==
    LET W1 == [W EXCEPT !.apps[app].active = FALSE]
    IN  IF W.apps[app].bearer = 0 THEN Raise(W1, "AttributeError")
        ELSE IF W.apps[app].bearer > 1
        THEN teardown(W1, W.apps[app].ue, W.apps[app].bearer)
        ELSE W1

(***************************************************************************)
(* The modification of the QoS of a bearer.  What a check returns is       *)
(* "True", "False" or, when the method ends without a return, "None".      *)
(***************************************************************************)
\* The acceptance test of AccessControlSample.check_bearer_modification.
modification_success(new_qci, new_gbr, old_gbr, used_rbs, needed_rbs, num_rbs) ==
    (new_qci > 5) \/ (new_gbr <= old_gbr) \/ (used_rbs + needed_rbs <= num_rbs * 1000)

\* check_bearer_modification of the configured policy: the new W, what the
\* method returns, and what the check computed and did.
check_bearer_modification(W, old_gbr, old_qci, new_gbr, new_mbr, new_qci, arp, pvi, pci, imsi, bid, mcs) ==
    LET Result(W1, ret, needed_old, needed_new, used_rbs, direct, tried, preempted) ==
          [W |-> W1, ret |-> ret, needed_old |-> needed_old, needed_new |-> needed_new,
           used |-> used_rbs, direct |-> direct, tried |-> tried, preempted |-> preempted]
        Preempt(needed_old, needed_new, used_rbs, pre) ==
          Result(IF pre.success THEN teardown_all(W, pre.preempted) ELSE W,
                 IF pre.success THEN "True" ELSE "False",
                 needed_old, needed_new, used_rbs, FALSE, TRUE, pre.preempted)
        Decide(needed_old, needed_new, used_rbs, direct) ==
          IF W.cfg.access_control = "traceonly"
          THEN Result(W, "None", needed_old, needed_new, used_rbs, FALSE, FALSE, << >>)
          ELSE IF direct
          THEN Result(W, "True", needed_old, needed_new, used_rbs, TRUE, FALSE, << >>)
          ELSE IF ~pci
          THEN Result(W, "False", needed_old, needed_new, used_rbs, FALSE, FALSE, << >>)
          ELSE Preempt(needed_old, needed_new, used_rbs,
                       attempt_preemption(W, bid, arp, needed_new - needed_old, used_rbs))
        Check(needed_old, needed_new, used_rbs) ==
          Decide(needed_old, needed_new, used_rbs,
                 modification_success(new_qci, new_gbr, old_gbr, used_rbs,
                                      needed_new - needed_old, W.cfg.num_rbs))
    IN  Check(get_needed_gbr_rbs(W, old_gbr, mcs, old_qci),
              get_needed_gbr_rbs(W, new_gbr, mcs, new_qci),
              get_used_gbr_rbs(W))

\* TraceWriter.trace_bearer_modification: with a bearer trace, the format
\* string asks for a seventh argument of six.
trace_bearer_modification(W) ==
    IF W.cfg.bearer_trace THEN Raise(W, "IndexError") ELSE W

NoMod == [ret |-> "none", needed_old |-> 0, needed_new |-> 0, used |-> 0,
          direct |-> FALSE, tried |-> FALSE, preempted |-> << >>]

ModOf(c) == [ret |-> c.ret, needed_old |-> c.needed_old, needed_new |-> c.needed_new,
             used |-> c.used, direct |-> c.direct, tried |-> c.tried,
             preempted |-> c.preempted]

\* Bearer.modify_qos: [W, mod].
modify_qos(W, imsi, bid, new_qci, new_gbr, new_mbr) ==
    LET b == W.bearers[<<imsi, bid>>]
        Set(W1) ==
          IF W1.err # "none" THEN W1
          ELSE [W1 EXCEPT !.bearers[<<imsi, bid>>].qci = new_qci,
                          !.bearers[<<imsi, bid>>].gbr = new_gbr,
                          !.bearers[<<imsi, bid>>].mbr = new_mbr]
        Then(c) ==
          [W |-> IF c.W.err = "none" /\ c.ret = "True"
                 THEN Set(trace_bearer_modification(c.W)) ELSE c.W,
           mod |-> ModOf(c)]
    IN  Then(check_bearer_modification(W, b.gbr, b.qci, new_gbr, new_mbr, new_qci,
                                       b.arp, b.pvi, b.pci, imsi, bid, W.ues[imsi].mcs))

(***************************************************************************)
(* The scheduler.  rtx_pending maps a time to the entries to retransmit    *)
(* at that time, kept in their order of insertion; an entry is             *)
(* [ue, bid, rbs, tbs, num_rtx], and t0, a history field: the time of the  *)
(* fresh transmission that failed.                                         *)
(***************************************************************************)
RtxEntry(ue, bid, rbs, tbs, num_rtx, t0) ==
    [ue |-> ue, bid |-> bid, rbs |-> rbs, tbs |-> tbs, num_rtx |-> num_rtx, t0 |-> t0]

\* The order in which the nested dictionaries are walked: the UEs in the
\* order of their first insertion, then the BIDs of a UE likewise, then the
\* list of the BID.
RECURSIVE ByBid(_)
ByBid(entries) ==
    IF entries = << >> THEN << >>
    ELSE SelectSeq(entries, LAMBDA e : e.bid = Head(entries).bid)
         \o ByBid(SelectSeq(entries, LAMBDA e : e.bid # Head(entries).bid))

RECURSIVE ByUe(_)
ByUe(entries) ==
    IF entries = << >> THEN << >>
    ELSE ByBid(SelectSeq(entries, LAMBDA e : e.ue = Head(entries).ue))
         \o ByUe(SelectSeq(entries, LAMBDA e : e.ue # Head(entries).ue))

EntriesAt(rtx_pending, t) == IF t \in DOMAIN rtx_pending THEN rtx_pending[t] ELSE << >>

is_last_rtx_late(num_rtx) == num_rtx = MAX_RTX + 1

\* The test of process_retransmissions for the retransmission that is
\* assumed to succeed.
is_last_rtx(num_rtx) == num_rtx = MAX_RTX

NumRetryDraws(entries) == Len(SelectSeq(entries, LAMBDA e : ~is_last_rtx(e.num_rtx)))

rtx_entry_late(current_time, ue, bid, rbs, tbs, num_rtx, t0) ==
    [time |-> current_time + RTX_DELAY + 1,
     entry |-> RtxEntry(ue, bid, rbs, tbs, num_rtx + 1, t0)]

\* SchedulerBase.rtx: the entry it makes and the time at which it waits.
rtx_entry(current_time, ue, bid, rbs, tbs, num_rtx, t0) ==
    [time |-> current_time + RTX_DELAY,
     entry |-> RtxEntry(ue, bid, rbs, tbs, num_rtx + 1, t0)]

\* SchedulerBase.tx_from_rtx: [ok, b, evs] for the bearer, when it is active.
tx_from_rtx(W, ue, bid, tbs, current_time, cause) ==
    LET Then(r) ==
          [W |-> IF r.ok THEN [W EXCEPT !.bearers[<<ue, bid>>] = r.b]
                 ELSE Raise([W EXCEPT !.bearers[<<ue, bid>>] = r.b], "AssertionError"),
           evs |-> r.evs]
    IN  IF <<ue, bid>> \in DOMAIN W.bearers
        THEN Then(bearer_rtx(W.bearers[<<ue, bid>>], tbs, current_time, cause))
        ELSE [W |-> W, evs |-> << >>]

\* The loop of process_retransmissions over the entries of this TTI, with the
\* outcomes of get_tx_success() in draws: the new W, the delivery events, the
\* entries put back with their times, the RBs used, and how many entries were
\* forced.
RECURSIVE retx_loop(_, _, _, _, _)
retx_loop(W, entries, draws, current_time, acc) ==
    LET e == Head(entries)
        cause == [by |-> "rtx", attempt |-> e.num_rtx, t0 |-> e.t0]
        acc1 == [acc EXCEPT !.used_rbs = @ + e.rbs]
        Sent(good, rest, acc2) ==
          retx_loop(good.W, Tail(entries), rest, current_time,
                    [acc2 EXCEPT !.evs = @ \o good.evs])
        Failed(rest) ==
          retx_loop(W, Tail(entries), rest, current_time,
                    [acc1 EXCEPT !.draws = @ + 1,
                                 !.put_back = Append(@,
                                     rtx_entry(current_time, e.ue, e.bid, e.rbs,
                                               e.tbs, e.num_rtx, e.t0))])
    IN  IF entries = << >> \/ W.err # "none" THEN [acc EXCEPT !.W = W]
        ELSE IF ~is_last_rtx(e.num_rtx) /\ ~Head(draws) THEN Failed(Tail(draws))
        ELSE Sent(tx_from_rtx(W, e.ue, e.bid, e.tbs, current_time, cause),
                  IF is_last_rtx(e.num_rtx) THEN draws ELSE Tail(draws),
                  IF is_last_rtx(e.num_rtx) THEN [acc1 EXCEPT !.forced = @ + 1]
                  ELSE [acc1 EXCEPT !.draws = @ + 1])

\* SchedulerBase.process_retransmissions
process_retransmissions(W, rtx_pending, draws, current_time) ==
    retx_loop(W, ByUe(EntriesAt(rtx_pending, current_time)), draws, current_time,
              [W |-> W, evs |-> << >>, put_back |-> << >>, used_rbs |-> 0,
               draws |-> 0, forced |-> 0])

BidList(W, imsi) == SetToSortedSeq(UeBids(W.bearers, imsi))

\* The bytes the RBs already allocated to a bearer in this TTI carry.
bytes_out_of(W, alloc, k) ==
    IF k \in DOMAIN alloc THEN TBS_FOR_MCS(W.ues[k[1]].mcs, alloc[k]) ELSE 0

\* The bearer at the positions (ue_idx, bearer_idx), both counted from 0.
BearerAt(W, ue_idx, bearer_idx) ==
    LET imsi == UeList(W.bearers)[ue_idx + 1]
    IN  <<imsi, BidList(W, imsi)[bearer_idx + 1]>>

\* The while loop of SchedulerRoundRobin.schedule.  st is
\* [ue_idx, bearer_idx, available_rbs, alloc, order, last_ue, last_bid, first];
\* order lists the bearers of alloc in the order of their first RB, and
\* first is the bearer the loop looks at first.
RECURSIVE rr_loop(_, _)
rr_loop(W, st) ==
    LET Advance(cur, st1) ==
          LET bearer_idx == (st.bearer_idx + 1) % Len(BidList(W, cur[1]))
              ue_idx == IF bearer_idx = 0
                        THEN (st.ue_idx + 1) % Len(UeList(W.bearers))
                        ELSE st.ue_idx
              Check(nxt, st2) ==
                IF nxt[1] = st1.last_ue /\ nxt[2] = st1.last_bid
                   /\ pending_size(W.bearers[nxt]) - bytes_out_of(W, st1.alloc, nxt) <= 0
                THEN st2
                ELSE rr_loop(W, st2)
          IN  Check(BearerAt(W, ue_idx, bearer_idx),
                    [st1 EXCEPT !.ue_idx = ue_idx, !.bearer_idx = bearer_idx])
        Allocate(cur) ==
          Advance(cur,
                  IF pending_size(W.bearers[cur]) - bytes_out_of(W, st.alloc, cur) > 0
                  THEN [st EXCEPT !.alloc = IF cur \in DOMAIN @
                                            THEN [@ EXCEPT ![cur] = @ + 1]
                                            ELSE @ @@ (cur :> 1),
                                  !.order = IF cur \in DOMAIN st.alloc THEN @
                                            ELSE Append(@, cur),
                                  !.last_ue = cur[1],
                                  !.last_bid = cur[2],
                                  !.available_rbs = @ - 1]
                  ELSE st)
    IN  IF ~(st.available_rbs > 0) THEN st
        ELSE Allocate(BearerAt(W, st.ue_idx, st.bearer_idx))

IndexOf(seq, x) == IF \E i \in 1..Len(seq) : seq[i] = x
                   THEN (CHOOSE i \in 1..Len(seq) : seq[i] = x) - 1
                   ELSE -1

\* The start of the Round-Robin allocation: where the last TTI stopped, or
\* the first bearer when that one is gone.
rr_start(W, last_ue, last_bid, available_rbs) ==
    LET Start(ue_idx, bearer_idx, lu, lb) ==
          [ue_idx |-> ue_idx, bearer_idx |-> bearer_idx,
           available_rbs |-> available_rbs, alloc |-> << >>, order |-> << >>,
           last_ue |-> lu, last_bid |-> lb,
           first |-> BearerAt(W, ue_idx, bearer_idx)]
        FindBid(ue_idx, lu, lb0, bids) ==
          IF IndexOf(bids, lb0) >= 0 THEN Start(ue_idx, IndexOf(bids, lb0), lu, lb0)
          ELSE Start(ue_idx, 0, lu, bids[1])
        FindUe(ues_) ==
          IF IndexOf(ues_, last_ue) >= 0
          THEN FindBid(IndexOf(ues_, last_ue), last_ue, last_bid, BidList(W, last_ue))
          ELSE FindBid(0, ues_[1], BidList(W, ues_[1])[1], BidList(W, ues_[1]))
    IN  FindUe(UeList(W.bearers))

available_after_ignoring_rtx(num_rbs, used_rbs) == num_rbs

\* The RBs left for the fresh transmissions once the retransmissions of the
\* TTI have taken theirs.
available_after(num_rbs, used_rbs) == num_rbs - used_rbs

\* The Round-Robin allocation of one TTI.
rr_allocate(W, last_ue, last_bid, available_rbs) ==
    rr_loop(W, rr_start(W, last_ue, last_bid, available_rbs))

\* The order in which process_allocations walks the allocations.
RECURSIVE AllocOrder(_)
AllocOrder(order) ==
    IF order = << >> THEN << >>
    ELSE SelectSeq(order, LAMBDA k : k[1] = Head(order)[1])
         \o AllocOrder(SelectSeq(order, LAMBDA k : k[1] # Head(order)[1]))

\* SchedulerBase.process_allocations: the new W, the delivery events, and
\* the entries for the failed transmissions.
RECURSIVE alloc_loop(_, _, _, _, _, _)
alloc_loop(W, keys, alloc, draws, current_time, acc) ==
    LET k == Head(keys)
        Then(tbs, r) ==
          alloc_loop(IF r.ok THEN [W EXCEPT !.bearers[k] = r.b]
                     ELSE Raise([W EXCEPT !.bearers[k] = r.b], "AssertionError"),
                     Tail(keys), alloc, Tail(draws), current_time,
                     [acc EXCEPT !.evs = @ \o r.evs,
                                 !.draws = @ + 1,
                                 !.failed = IF Head(draws) \/ ~r.ok THEN @
                                            ELSE Append(@,
                                                rtx_entry(current_time, k[1], k[2],
                                                          alloc[k], tbs, 0,
                                                          current_time))])
        Send(tbs) == Then(tbs, tx(W.bearers[k], tbs, ~Head(draws), current_time))
    IN  IF keys = << >> \/ W.err # "none" THEN [acc EXCEPT !.W = W]
        ELSE Send(TBS_FOR_MCS(W.ues[k[1]].mcs, alloc[k]))

process_allocations(W, order, alloc, draws, current_time) ==
    alloc_loop(W, AllocOrder(order), alloc, draws, current_time,
               [W |-> W, evs |-> << >>, failed |-> << >>, draws |-> 0])

(***************************************************************************)
(* The QoS monitor.                                                        *)
(***************************************************************************)
\* QOS_LIMITS_PER_QCI: the maximum delay (ms) of a QCI.
QosMaxDelay(qci) == <<100, 150, 50, 300, 100, 300, 100, 300, 300>>[qci]

\* QOS_LIMITS_PER_QCI: the error and loss rate of a QCI is 1 / QosLossDenom.
QosLossDenom(qci) ==
    <<100, 1000, 1000, 1000000, 1000000, 1000000, 1000, 1000000, 1000000>>[qci]

NaN == -1

\* Python's max() over Times, some of them NaN: a later value replaces the
\* running maximum only when it compares greater, and no comparison with a
\* NaN is true.
RECURSIVE PyMax(_, _)
PyMax(m, rest) ==
    IF rest = << >> THEN m
    ELSE PyMax(IF m # NaN /\ Head(rest) # NaN /\ Head(rest) > m THEN Head(rest) ELSE m,
               Tail(rest))

SecondsBetween(lo, hi) == {lo + i * ONE_SECOND : i \in 0..((hi - lo) \div ONE_SECOND)}

RECURSIVE DelaysOf(_, _, _)
DelaysOf(q, current_time, delays) ==
    IF q = << >> THEN delays
    ELSE DelaysOf(Tail(q), current_time,
                  LET k == NearestSecond(Head(q).tx_time)
                      v == current_time - Head(q).tx_time
                  IN  IF k \in DOMAIN delays THEN [delays EXCEPT ![k] = v]
                      ELSE delays @@ (k :> v))

\* Bearer.get_metrics: [b, delays]; the throughput and the loss of b are
\* filled with zeros over the window and cut before it.
get_metrics(b, current_time, threshold) ==
    LET Metrics(m0, fill) ==
          LET Fill(map, v) == [k \in DOMAIN map \cup fill |->
                                  IF k \in DOMAIN map THEN map[k] ELSE v]
              Cut(map, old) == Restrict(map, DOMAIN map \ old)
              old == {k \in DOMAIN b.throughput : k < m0}
          IN  [b |-> [b EXCEPT !.throughput = Cut(Fill(b.throughput, 0), old),
                               !.loss = Cut(Fill(b.loss, 0), old)],
               delays |-> Fill(DelaysOf(b.queue, current_time, << >>), NaN)]
        Window(m0) == Metrics(m0, SecondsBetween(m0, NearestSecond(current_time)))
        From(m) == Window(IF m < 0 THEN 0 ELSE m)
    IN  From(NearestSecond(current_time - threshold))

LastSecondValues(map, current_time) ==
    LET Values(ks) == [i \in 1..Len(ks) |-> map[ks[i]]]
    IN  Values(SetToSortedSeq({k \in DOMAIN map : current_time - k < ONE_SECOND}))

\* The test of get_qos for a bearer that misses the targets of its QCI.
misses_qos(qci, loss, throughput, delay) ==
    \/ loss > 0 /\ (loss + throughput) \div loss < QosLossDenom(qci)
    \/ delay # NaN /\ delay > QosMaxDelay(qci)

RECURSIVE qos_loop_tearing_down_victims(_, _, _, _, _)
qos_loop_tearing_down_victims(W, ueseq, pos, current_time, acc) ==
    LET Preempt(W1, acc1, pre) ==
          IF pre.success
          THEN qos_loop_tearing_down_victims(
                   teardown_all(W1, pre.preempted), ueseq, pos + 1, current_time,
                   [acc1 EXCEPT !.preempted = TRUE,
                                !.trace_preemption = @ + Len(pre.preempted)])
          ELSE qos_loop_tearing_down_victims(W1, ueseq, pos + 1, current_time, acc1)
        Judge(k, b, W1, acc1, loss, throughput, dl) ==
          IF W.cfg.preempt_qos /\ ~acc.preempted
             /\ misses_qos(b.qci, loss, throughput, PyMax(Head(dl), Tail(dl)))
          THEN Preempt(W1, acc1, qos_preemption(W1, k[1], k[2], b.arp))
          ELSE qos_loop_tearing_down_victims(W1, ueseq, pos + 1, current_time, acc1)
        Measure(k, m) ==
          Judge(k, m.b, [W EXCEPT !.bearers[k] = m.b],
                [acc EXCEPT !.visited = Append(@, k)],
                SumSeq(LastSecondValues(m.b.loss, current_time)),
                SumSeq(LastSecondValues(m.b.throughput, current_time)),
                LastSecondValues(m.delays, current_time))
        Visit(k) ==
          Measure(k, get_metrics(W.bearers[k], current_time,
                                 W.cfg.bearer_stats_window_size))
        Bids(bids) ==
          IF pos > Len(bids)
          THEN qos_loop_tearing_down_victims(W, Tail(ueseq), 1, current_time, acc)
          ELSE Visit(<<Head(ueseq), bids[pos]>>)
    IN  IF W.err # "none" \/ ueseq = << >> THEN [acc EXCEPT !.W = W]
        ELSE Bids(BidList(W, Head(ueseq)))

\* The loops of QosMonitorDefault.get_qos: the UEs in order and, for each,
\* its BIDs by position in the list as it is when the position is reached.
\* acc is [W, preempted, visited, trace_preemption].
RECURSIVE qos_loop(_, _, _, _, _)
qos_loop(W, ueseq, pos, current_time, acc) ==
    LET Preempt(W1, acc1, pre) ==
          IF pre.success
          \* bearers_to_preempt[0] is the pair [bearer, rbs], not the bearer:
          \* reading its ue raises AttributeError.
          THEN [acc1 EXCEPT !.W = Raise(W1, "AttributeError"),
                            !.preempted = TRUE,
                            !.trace_preemption = @ + Len(pre.preempted)]
          ELSE qos_loop(W1, ueseq, pos + 1, current_time, acc1)
        Judge(k, b, W1, acc1, loss, throughput, dl) ==
          IF W.cfg.preempt_qos /\ ~acc.preempted
             /\ misses_qos(b.qci, loss, throughput, PyMax(Head(dl), Tail(dl)))
          THEN Preempt(W1, acc1, qos_preemption(W1, k[1], k[2], b.arp))
          ELSE qos_loop(W1, ueseq, pos + 1, current_time, acc1)
        Measure(k, m) ==
          Judge(k, m.b, [W EXCEPT !.bearers[k] = m.b],
                [acc EXCEPT !.visited = Append(@, k)],
                SumSeq(LastSecondValues(m.b.loss, current_time)),
                SumSeq(LastSecondValues(m.b.throughput, current_time)),
                LastSecondValues(m.delays, current_time))
        Visit(k) ==
          Measure(k, get_metrics(W.bearers[k], current_time,
                                 W.cfg.bearer_stats_window_size))
        Bids(bids) ==
          IF pos > Len(bids) THEN qos_loop(W, Tail(ueseq), 1, current_time, acc)
          ELSE Visit(<<Head(ueseq), bids[pos]>>)
    IN  IF W.err # "none" \/ ueseq = << >> THEN [acc EXCEPT !.W = W]
        ELSE Bids(BidList(W, Head(ueseq)))

\* QosMonitorBase.do_trace_qos_stats: the lines it writes in the QoS trace,
\* one for each bearer that get_qos measured.
do_trace_qos_stats(W, visited) == IF W.cfg.trace_qos THEN Len(visited) ELSE 0

\* QosMonitorDefault.get_qos: [W, preempted, visited, trace_preemption,
\* lines]; an exception leaves it before the trace of the QoS.
get_qos(W, current_time) ==
    LET Traced(acc) ==
          [W |-> acc.W, preempted |-> acc.preempted, visited |-> acc.visited,
           trace_preemption |-> acc.trace_preemption,
           lines |-> IF acc.W.err = "none" THEN do_trace_qos_stats(W, acc.visited)
                     ELSE 0]
    IN  Traced(qos_loop(W, UeList(W.bearers), 1, current_time,
                        [W |-> W, preempted |-> FALSE, visited |-> << >>,
                         trace_preemption |-> 0]))

(***************************************************************************)
(* Applications.  An application is a record: its profile (sizes is the    *)
(* set of values its packet size distribution takes; the other three       *)
(* distributions are constant), its start and stop times, the counters of  *)
(* its session, the BID of its bearer (0 for None) and the IMSI of the     *)
(* bearer's UE.                                                            *)
(***************************************************************************)
\* Application.__init__
NewApp(sizes, packet_interval, packets_session, session_interval, start_time, stop_time) ==
    [sizes |-> sizes, packet_interval |-> packet_interval,
     packets_session |-> packets_session, session_interval |-> session_interval,
     start_time |-> start_time, stop_time |-> stop_time,
     packets_current_session |-> 0, count_packets_session |-> 0,
     bearer |-> 0, ue |-> 0, active |-> FALSE]

\* Application.generate_packet with a packet of the given payload size and
\* PID: [W, evs, made, key, packet]; made says whether a packet was created,
\* key is the bearer it was offered to.
generate_packet(W, app, size, pid, current_time) ==
    LET a == W.apps[app]
        key == <<a.ue, a.bearer>>
        packet == add_overhead(NewPacket(pid, size, current_time, app), NETWORK_OVERHEAD)
        count == a.count_packets_session + 1
        last == count = a.packets_current_session
        a1 == [a EXCEPT !.count_packets_session = IF last THEN 0 ELSE count]
        delay == IF last THEN a.session_interval ELSE a.packet_interval
        nothing == [W |-> W, evs |-> << >>, made |-> FALSE, key |-> key, packet |-> NoPacket]
    IN  IF ~a.active \/ ~(current_time <= a.stop_time) THEN nothing
        ELSE IF a.bearer = 0 THEN [nothing EXCEPT !.W = Raise(W, "ValueError")]
        ELSE [W |-> [W EXCEPT !.bearers[key] = add_packet(@, packet, current_time),
                              !.apps[app] = a1],
              evs |-> <<Event(current_time + delay, "generate_packet", app, 0, 0,
                              NoPacket, NoPar, NoCause)>>,
              made |-> TRUE, key |-> key, packet |-> packet]

\* Application.start_app
start_app(W, app, size, pid, current_time) ==
    generate_packet([W EXCEPT !.apps[app].active = TRUE,
                              !.apps[app].packets_current_session =
                                  W.apps[app].packets_session],
                    app, size, pid, current_time)

(***************************************************************************)
(* The scenario: what the script that builds a simulation does before it   *)
(* calls start_simulation.  A scenario is a record                         *)
(*   cfg    the arguments of the Des and of its policies                   *)
(*   ues    a sequence of [imsi, mcs, queue_size]                          *)
(*   apps   a sequence of [name, ue, default_bearer, app]                  *)
(*   acts   a sequence of bearer activations and deactivations             *)
(***************************************************************************)
\* Des.__init__
NewDes(cfg) == [bearers |-> << >>, ues |-> << >>, apps |-> << >>, err |-> "none",
                cfg |-> cfg, added |-> 0, offered |-> << >>]

RECURSIVE CreateUes(_, _)
CreateUes(W, ueseq) ==
    IF ueseq = << >> THEN W
    ELSE CreateUes(NewUe(W, Head(ueseq).imsi, Head(ueseq).mcs, Head(ueseq).queue_size),
                   Tail(ueseq))

\* AppProfile.create_app: the events of the application, in the order of
\* their insertion.
create_app(name, app, ue, default_bearer) ==
    <<Event(app.start_time, "start_app", name, 0, 0, NoPacket, NoPar, NoCause),
      Event(app.stop_time, "stop_app", name, 0, 0, NoPacket, NoPar, NoCause),
      Event(app.start_time - APP_SETUP_LEAD, "add_app", name, ue, 0, NoPacket,
            [NoPar EXCEPT !.default_bearer = default_bearer], NoCause)>>

RECURSIVE CreateApps(_)
CreateApps(appseq) ==
    IF appseq = << >> THEN << >>
    ELSE create_app(Head(appseq).name, Head(appseq).app, Head(appseq).ue,
                    Head(appseq).default_bearer) \o CreateApps(Tail(appseq))

\* Des.activate_bearer_at_time
activate_bearer_at_time(time, app, par) ==
    Event(time, "do_activate_bearer", app, 0, 0, NoPacket, par, NoCause)

\* Des.deactivate_bearer_at_time
deactivate_bearer_at_time(time, ue, bid) ==
    Event(time, "do_deactivate_bearer", "none", ue, bid, NoPacket, NoPar, NoCause)

\* An Event for Bearer.modify_qos of a bearer of the list, that the script
\* adds with Des.add_event.
modify_qos_at_time(time, ue, bid, new_qci, new_gbr, new_mbr) ==
    Event(time, "modify_qos", "none", ue, bid, NoPacket,
          [NoPar EXCEPT !.qci = new_qci, !.gbr = new_gbr, !.mbr = new_mbr], NoCause)

(***************************************************************************)
(* The bounds of the model, and the scenarios it runs.                     *)
(***************************************************************************)
\* The time of the end_simulation event, in ms.
StopTime == 150

\* The packets of a session of an application; the sessions are further
\* apart than StopTime, so this is what an application generates.
PacketsPerSession == 2

\* At most this many draws of get_tx_success() are False in a run.
MaxTxFailures == 4

\* At most this many packets are generated in a run.
MaxPackets == 70

DEFAULT_MBR == 1024 * 1024 * 1024

\* The arguments of the Des and of its policies.
Config(num_rbs, rtx_threshold, preemption_policy, priority, qos_monitor_interval, preempt_qos) ==
    [num_rbs |-> num_rbs, rtx_threshold |-> rtx_threshold,
     access_control |-> "sample", preemption_policy |-> preemption_policy,
     priority |-> priority, qos_monitor_interval |-> qos_monitor_interval,
     preempt_qos |-> preempt_qos, stop_time |-> StopTime,
     default_qci |-> DEFAULT_QCI, default_arp |-> DEFAULT_ARP,
     default_mbr |-> DEFAULT_MBR, bearer_stats_window_size |-> 60 * ONE_SECOND,
     bearer_trace |-> TRUE, trace_qos |-> TRUE]

Par(qci, gbr, mbr, pci, pvi, arp) ==
    [qci |-> qci, gbr |-> gbr, mbr |-> mbr, pci |-> pci, pvi |-> pvi, arp |-> arp,
     default_bearer |-> FALSE]

\* The priority policy of the scenarios: a GBR bearer of 1000 RBs per second
\* at MCS 8, that can be pre-empted.
SamplePriority == Par(2, 120000, 240000, FALSE, TRUE, 10)

\* An application that starts as early as its add_app event allows.
App(sizes, packet_interval) ==
    NewApp(sizes, packet_interval, PacketsPerSession, StopTime + 1,
           APP_SETUP_LEAD, StopTime - 10)

TwoUes == <<[imsi |-> 1, mcs |-> 8, queue_size |-> 70],
            [imsi |-> 2, mcs |-> 8, queue_size |-> 70]>>

A1(sizes, packet_interval) ==
    [name |-> "a1", ue |-> 1, default_bearer |-> FALSE, app |-> App(sizes, packet_interval)]

A2(sizes) == [name |-> "a2", ue |-> 2, default_bearer |-> TRUE, app |-> App(sizes, 1)]

\* One application whose transmissions can fail.
HarqScenarios ==
    {[cfg |-> Config(2, 10, "dummy", SamplePriority, ONE_SECOND, FALSE),
      ues |-> TwoUes, apps |-> <<A1({1, 20}, RTX_DELAY)>>, acts |-> acts]
       : acts \in {<< >>, <<deactivate_bearer_at_time(APP_SETUP_LEAD + 5, 1, 3)>>}}

\* Two applications on two UEs, one of them faster than the cell.
LoadScenarios ==
    {[cfg |-> Config(n, 0, "dummy", SamplePriority, ONE_SECOND, FALSE),
      ues |-> TwoUes, apps |-> <<A1({1, 20}, RTX_DELAY), A2({20, 40})>>, acts |-> << >>]
       : n \in {2, 3, 4}}

\* Bearers activated and deactivated while the applications run.
ActChoices ==
    {<<deactivate_bearer_at_time(APP_SETUP_LEAD + 1, 2, 1)>>,
     <<activate_bearer_at_time(APP_SETUP_LEAD + 1, "a2", Par(7, 0, 0, FALSE, FALSE, 9))>>,
     <<activate_bearer_at_time(APP_SETUP_LEAD + 1, "a1", Par(1, 240000, 240000, TRUE, FALSE, 11))>>,
     <<activate_bearer_at_time(APP_SETUP_LEAD + 1, "a1", Par(1, 240000, 240000, TRUE, FALSE, 5))>>,
     <<activate_bearer_at_time(APP_SETUP_LEAD + 1, "a1", Par(3, 60000, 60000, FALSE, FALSE, 9)),
       activate_bearer_at_time(APP_SETUP_LEAD + 2, "a1", Par(1, 240000, 240000, TRUE, TRUE, 5)),
       deactivate_bearer_at_time(APP_SETUP_LEAD + 9, 1, 7)>>}
    \cup {<<activate_bearer_at_time(APP_SETUP_LEAD + 1, "a1",
                                    Par(qci, gbr, gbr, FALSE, FALSE, 5))>>
            : qci \in 1..9, gbr \in {120000, 240000}}
    \cup {<<activate_bearer_at_time(APP_SETUP_LEAD + 1, "a1",
                                    Par(1, 240000, 240000, TRUE, FALSE, 11)),
             activate_bearer_at_time(APP_SETUP_LEAD + 2, "a1",
                                    Par(qci, 0, 0, FALSE, FALSE, 9))>>
            : qci \in {5, 7}}
    \cup {<<activate_bearer_at_time(APP_SETUP_LEAD + 1, "a1",
                                    Par(1, MAX_TABLE_RATE, MAX_TABLE_RATE, TRUE, FALSE, 11))>>,
          <<activate_bearer_at_time(APP_SETUP_LEAD + 1, "a1", Par(3, 60000, 60000, FALSE, FALSE, 9)),
            activate_bearer_at_time(APP_SETUP_LEAD + 2, "a1",
                                    Par(1, MAX_TABLE_RATE, MAX_TABLE_RATE, TRUE, TRUE, 5))>>}

ActScenarios ==
    {[cfg |-> Config(2, 0, "preemptall", SamplePriority, ONE_SECOND, FALSE),
      ues |-> TwoUes, apps |-> <<A1({20}, RTX_DELAY), A2({20})>>, acts |-> acts]
       : acts \in ActChoices}

\* An application that loses packets on a bearer activated for it, in a cell
\* that checks the QoS every 30 ms and pre-empts for it.
QosScenarios ==
    {[cfg |-> Config(2, 0, "preemptall", SamplePriority, 30, TRUE),
      ues |-> TwoUes, apps |-> <<A1({40}, 1)>>,
      acts |-> <<activate_bearer_at_time(APP_SETUP_LEAD - 1, "a1",
                                         Par(3, 60000, 60000, FALSE, FALSE, 5))>>]}

A3(sizes) == [name |-> "a3", ue |-> 2, default_bearer |-> FALSE, app |-> App(sizes, 1)]

\* The cell of QosScenarios with room for the GBR bearers of two
\* applications, both of which the pre-emption for the QoS can take.
VictimScenarios ==
    {[cfg |-> Config(3, 0, "preemptall", SamplePriority, 30, TRUE),
      ues |-> TwoUes, apps |-> <<A1({40}, 1), A3({20})>>,
      acts |-> <<activate_bearer_at_time(APP_SETUP_LEAD - 1, "a1",
                                         Par(3, 60000, 60000, FALSE, FALSE, 5))>>]}

\* Two applications that ask for a dedicated bearer in a cell with room for
\* one.
DenyScenarios ==
    {[cfg |-> Config(1, 0, "preemptall", SamplePriority, ONE_SECOND, FALSE),
      ues |-> TwoUes, apps |-> <<A1({20}, RTX_DELAY), A3({20})>>, acts |-> << >>]}

\* An application that starts late, on a dedicated bearer of UE 1.
A4(sizes) ==
    [name |-> "a4", ue |-> 1, default_bearer |-> FALSE,
     app |-> NewApp(sizes, 1, PacketsPerSession, StopTime + 1, APP_SETUP_LEAD + 20,
                    StopTime - 10)]

\* Ten activations of a non-GBR bearer for the application of UE 1, which
\* has a dedicated bearer already, and then another activation or another
\* application.
ManyScenarios ==
    {[cfg |-> Config(2, 0, "dummy", SamplePriority, ONE_SECOND, FALSE),
      ues |-> TwoUes, apps |-> <<A1({20}, RTX_DELAY)>> \o more.apps,
      acts |-> [i \in 1..10 |->
                  activate_bearer_at_time(i, "a1", Par(7, 0, 0, FALSE, FALSE, 9))]
               \o more.acts]
       : more \in {[apps |-> <<A4({20})>>, acts |-> << >>],
                   [apps |-> << >>,
                    acts |-> <<activate_bearer_at_time(
                                   11, "a1", Par(7, 0, 0, FALSE, FALSE, 9))>>]}}

\* The access control policy and whether there is a bearer trace, for the
\* scenarios that modify bearers.
ModPolicies ==
    {[access_control |-> "sample", bearer_trace |-> TRUE],
     [access_control |-> "sample", bearer_trace |-> FALSE],
     [access_control |-> "traceonly", bearer_trace |-> FALSE]}

\* A first modification, of the default bearer of UE 1 or of the dedicated
\* bearer of its application (qci 2, 120000 bit/s), and a second one.
FirstMods ==
    {modify_qos_at_time(1, 1, 1, 1, 120000, 120000),
     modify_qos_at_time(1, 1, 1, 1, 240000, 240000),
     modify_qos_at_time(1, 1, 1, 7, 240000, 240000),
     modify_qos_at_time(1, 1, 1, 5, 240000, 240000),
     modify_qos_at_time(1, 1, 3, 2, 60000, 60000),
     modify_qos_at_time(1, 1, 3, 2, 240000, 240000),
     modify_qos_at_time(1, 1, 3, 1, 360000, 360000)}

SecondMods ==
    {modify_qos_at_time(2, 1, 1, 1, 240000, 240000),
     modify_qos_at_time(2, 2, 1, 3, 120000, 120000),
     modify_qos_at_time(2, 1, 3, 9, 480000, 480000)}

ModScenarios ==
    {[cfg |-> [Config(2, 0, "preemptall", SamplePriority, ONE_SECOND, FALSE) EXCEPT
                 !.access_control = pol.access_control,
                 !.bearer_trace = pol.bearer_trace],
      ues |-> TwoUes, apps |-> <<A1({20}, RTX_DELAY)>>, acts |-> <<first, second>>]
       : pol \in ModPolicies, first \in FirstMods, second \in SecondMods}

\* An application on the default bearer of UE 2 whose packets are no time
\* apart, or whose packet interval is negative.
IntervalScenarios ==
    {[cfg |-> Config(2, 0, "dummy", SamplePriority, ONE_SECOND, FALSE),
      ues |-> TwoUes,
      apps |-> <<[name |-> "a2", ue |-> 2, default_bearer |-> TRUE,
                  app |-> App({20}, packet_interval)]>>,
      acts |-> << >>]
       : packet_interval \in {0, -1}}

\* Two applications of UE 2 that share its default bearer and start in the
\* same millisecond.
SharedScenarios ==
    {[cfg |-> Config(2, 0, "dummy", SamplePriority, ONE_SECOND, FALSE),
      ues |-> TwoUes,
      apps |-> <<[name |-> "a2", ue |-> 2, default_bearer |-> TRUE,
                  app |-> App({1}, RTX_DELAY)],
                 [name |-> "a5", ue |-> 2, default_bearer |-> TRUE,
                  app |-> App({1, 5}, RTX_DELAY)]>>,
      acts |-> << >>]}

\* An application whose session does not end before it stops: it starts at
\* APP_SETUP_LEAD and stops then, 20 ms later, or with the simulation.
WindowScenarios ==
    {[cfg |-> Config(2, 0, "dummy", SamplePriority, ONE_SECOND, FALSE),
      ues |-> TwoUes,
      apps |-> <<[name |-> "a2", ue |-> 2, default_bearer |-> TRUE,
                  app |-> NewApp({20}, packet_interval, 1000, StopTime + 1,
                                 APP_SETUP_LEAD, stop_time)]>>,
      acts |-> << >>]
       : packet_interval \in {5, 7},
         stop_time \in {APP_SETUP_LEAD, APP_SETUP_LEAD + 20, StopTime}}

\* One RB per TTI; an application on the default bearer of UE 1 that
\* generates a packet in every millisecond until the simulation stops, and
\* an application on the default bearer of UE 2 with one session.
BackloggedScenarios ==
    {[cfg |-> Config(1, 0, "dummy", SamplePriority, ONE_SECOND, FALSE),
      ues |-> TwoUes,
      apps |-> <<[name |-> "a1", ue |-> 1, default_bearer |-> TRUE,
                  app |-> NewApp({20}, 1, 1000, StopTime + 1, APP_SETUP_LEAD, StopTime)],
                 [name |-> "a2", ue |-> 2, default_bearer |-> TRUE,
                  app |-> App({20}, packet_interval)]>>,
      acts |-> << >>]
       : packet_interval \in {1, RTX_DELAY}}

\* An application whose packets and whose sessions are no time apart.
ZeroScenarios ==
    {[cfg |-> Config(2, 0, "dummy", SamplePriority, ONE_SECOND, FALSE),
      ues |-> TwoUes,
      apps |-> <<[name |-> "a2", ue |-> 2, default_bearer |-> TRUE,
                  app |-> NewApp({20}, 0, packets_session, 0,
                                 APP_SETUP_LEAD, StopTime - 10)]>>,
      acts |-> << >>]
       : packets_session \in {1, 2}}

Scenarios ==
    HarqScenarios \cup LoadScenarios \cup ActScenarios \cup QosScenarios \cup DenyScenarios
        \cup ManyScenarios \cup ModScenarios \cup IntervalScenarios
        \cup VictimScenarios \cup WindowScenarios
        \cup SharedScenarios \cup BackloggedScenarios \cup ZeroScenarios

(***************************************************************************)
(* The state of a simulation.                                              *)
(*   phase           "built" before start_simulation, "running" in its     *)
(*                   loop, "done" after end_simulation, "crashed" when an  *)
(*                   exception left the loop                               *)
(*   now, events     Des._current_time and Des._events                     *)
(*   bearers, ues, apps, err, cfg    the fields of W                       *)
(*   rtx_pending, last_ue, last_bid, last_qos_check   the scheduler        *)
(*   packet_id       Des._packet_id                                        *)
(* and, written but never read by the simulation:                          *)
(*   tx_failures     how many draws of get_tx_success() were False         *)
(*   dropped         the PIDs of the packets add_packet discarded          *)
(*   delivered       PID -> how many times receive_packet got it           *)
(*   obs             what the last operation did                           *)
(*   added, offered  the fields of W of these names; offered is what the   *)
(*                   last operation handed to Des.add_event                *)
(*   history         how many times schedule() and get_qos() were called,  *)
(*                   passed_over: for each bearer that had pending bytes   *)
(*                   at the loop of schedule() and got no RB in any        *)
(*                   invocation since, the time of the first of these,     *)
(*                   and the bearer that got the last RB of the last       *)
(*                   Round-Robin allocation, <<0, 0>> before the first     *)
(***************************************************************************)
VARIABLES phase, now, events, bearers, ues, apps, err, cfg,
          rtx_pending, last_ue, last_bid, last_qos_check, packet_id,
          tx_failures, dropped, delivered, obs, added, offered, history

vars == <<phase, now, events, bearers, ues, apps, err, cfg,
          rtx_pending, last_ue, last_bid, last_qos_check, packet_id,
          tx_failures, dropped, delivered, obs, added, offered, history>>

World == [bearers |-> bearers, ues |-> ues, apps |-> apps, err |-> err, cfg |-> cfg,
          added |-> added, offered |-> << >>]

SetWorld(W) ==
    /\ bearers' = W.bearers
    /\ ues' = W.ues
    /\ apps' = W.apps
    /\ err' = W.err
    /\ cfg' = W.cfg
    /\ added' = W.added
    /\ offered' = W.offered

\* What a call of get_qos did: the bearers of the list when it was called,
\* the lines it wrote in the QoS trace, the ARP_PRE-EMPTED lines of the ARP
\* trace, and whether a pre-emption succeeded.
NoQos == [flows |-> 0, lines |-> 0, arp_lines |-> 0, preempted |-> FALSE]

QosOf(W, g) == [flows |-> Cardinality(DOMAIN W.bearers), lines |-> g.lines,
                arp_lines |-> g.trace_preemption, preempted |-> g.preempted]

\* What a call of schedule() did; allocated says whether it reached the
\* Round-Robin loop, first is the bearer the loop looked at first, left the
\* RBs it left, alloc its allocations and at_loop the bearers as they were
\* during the loop.
NoSched == [retry_rbs |-> 0, fresh_rbs |-> 0, entries |-> << >>, retry_draws |-> 0,
            forced |-> 0, fresh_draws |-> 0, qos_checked |-> FALSE, qos |-> NoQos,
            allocated |-> FALSE, first |-> <<0, 0>>, left |-> 0, alloc |-> << >>,
            at_loop |-> << >>]

NoGen == [made |-> FALSE, key |-> <<0, 0>>, packet |-> NoPacket]

NoAdm == [imsi |-> 0, bid |-> 0, par |-> NoPar, chk |-> NoChk]

NoObs == [kind |-> "none", time |-> 0, sched |-> NoSched, gen |-> NoGen, adm |-> NoAdm,
          mod |-> NoMod, cleared |-> 0]

RECURSIVE add_events_unchecked(_, _, _, _)
add_events_unchecked(W, evs, new, current_time) ==
    LET e == [Head(new) EXCEPT !.seq = W.added + 1]
    IN  IF new = << >> \/ W.err # "none" THEN [W |-> W, evs |-> evs]
        ELSE add_events_unchecked([W EXCEPT !.added = @ + 1, !.offered = Append(@, e)],
                                  InsertEvent(evs, e), Tail(new), current_time)

\* Des.add_event for each event of new, in order: [W, evs].
RECURSIVE add_events(_, _, _, _)
add_events(W, evs, new, current_time) ==
    LET e == [Head(new) EXCEPT !.seq = W.added + 1]
    IN  IF new = << >> \/ W.err # "none" THEN [W |-> W, evs |-> evs]
        ELSE IF ~(Head(new).time >= current_time)
        THEN [W |-> Raise([W EXCEPT !.offered = Append(@, Head(new))], "ScheduledInPast"),
              evs |-> evs]
        ELSE add_events([W EXCEPT !.added = @ + 1, !.offered = Append(@, e)],
                        InsertEvent(evs, e), Tail(new), current_time)

\* The end of a handler of the loop of start_simulation: an exception leaves
\* the loop.
Continue(W, evs) ==
    /\ SetWorld(W)
    /\ events' = evs
    /\ phase' = IF W.err = "none" THEN "running" ELSE "crashed"

\* The loop of start_simulation takes the first event, of the given kind.
Takes(kind) ==
    /\ phase = "running"
    /\ events # << >>
    /\ Head(events).kind = kind
    /\ now' = Head(events).time

SchedulerUnchanged == UNCHANGED <<rtx_pending, last_ue, last_bid, last_qos_check, history>>

\* Des.start_simulation, up to its loop.
StartSimulation ==
    /\ phase = "built"
    /\ LET sched == Event(0, "schedule", "none", 0, 0, NoPacket, NoPar, NoCause)
           stop == Event(cfg.stop_time, "end_simulation", "none", 0, 0, NoPacket,
                         NoPar, NoCause)
           Then(r) == Continue(r.W, r.evs)
       IN  Then(add_events(World, events, <<stop, sched>>, now))
    /\ obs' = [NoObs EXCEPT !.kind = "start_simulation"]
    /\ SchedulerUnchanged
    /\ UNCHANGED <<now, packet_id, tx_failures, dropped, delivered>>

EndSimulation_keeps_events ==
    /\ Takes("end_simulation")
    /\ events' = Tail(events)
    /\ phase' = IF Tail(events) = << >> THEN "done" ELSE "running"
    /\ obs' = [NoObs EXCEPT !.kind = "end_simulation", !.time = now']
    /\ offered' = << >>
    /\ SchedulerUnchanged
    /\ UNCHANGED <<bearers, ues, apps, err, cfg, packet_id, tx_failures, dropped, delivered,
                   added>>

\* The loop of start_simulation at the end_simulation event.
EndSimulation ==
    /\ Takes("end_simulation")
    /\ events' = << >>
    /\ phase' = "done"
    /\ obs' = [NoObs EXCEPT !.kind = "end_simulation", !.time = now',
                            !.cleared = Len(Tail(events))]
    /\ offered' = << >>
    /\ SchedulerUnchanged
    /\ UNCHANGED <<bearers, ues, apps, err, cfg, packet_id, tx_failures, dropped, delivered,
                   added>>

\* What a generated packet adds to dropped.
DroppedBy(g) ==
    IF g.made /\ \A i \in 1..Len(g.W.bearers[g.key].queue) :
                     g.W.bearers[g.key].queue[i].pid # g.packet.pid
    THEN {g.packet.pid} ELSE {}

GenObs(g) == [made |-> g.made, key |-> g.key, packet |-> g.packet]

\* The event of Application.start_app.
StartApp ==
    /\ Takes("start_app")
    /\ \E size \in apps[Head(events).app].sizes :
         LET Then(g, r) ==
               /\ Continue(r.W, r.evs)
               /\ packet_id' = IF g.made THEN packet_id + 1 ELSE packet_id
               /\ dropped' = dropped \cup DroppedBy(g)
               /\ obs' = [NoObs EXCEPT !.kind = "start_app", !.time = now',
                                       !.gen = GenObs(g)]
             Generated(g) == Then(g, add_events(g.W, Tail(events), g.evs, now'))
         IN  Generated(start_app(World, Head(events).app, size, packet_id + 1, now'))
    /\ SchedulerUnchanged
    /\ UNCHANGED <<tx_failures, delivered>>

\* The event of Application.generate_packet.
GeneratePacket ==
    /\ Takes("generate_packet")
    /\ packet_id < MaxPackets
    /\ \E size \in apps[Head(events).app].sizes :
         LET Then(g, r) ==
               /\ Continue(r.W, r.evs)
               /\ packet_id' = IF g.made THEN packet_id + 1 ELSE packet_id
               /\ dropped' = dropped \cup DroppedBy(g)
               /\ obs' = [NoObs EXCEPT !.kind = "generate_packet", !.time = now',
                                       !.gen = GenObs(g)]
             Generated(g) == Then(g, add_events(g.W, Tail(events), g.evs, now'))
         IN  Generated(generate_packet(World, Head(events).app, size, packet_id + 1, now'))
    /\ SchedulerUnchanged
    /\ UNCHANGED <<tx_failures, delivered>>

\* The event of Application.receive_packet.
ReceivePacket ==
    /\ Takes("receive_packet")
    /\ Continue(World, Tail(events))
    /\ delivered' = AddTo(delivered, Head(events).pkt.pid, 1)
    /\ obs' = [NoObs EXCEPT !.kind = "receive_packet", !.time = now',
                            !.gen = [NoGen EXCEPT !.packet =
                                         remove_overhead(Head(events).pkt, NETWORK_OVERHEAD)]]
    /\ SchedulerUnchanged
    /\ UNCHANGED <<packet_id, tx_failures, dropped>>

\* The event of Application.stop_app.
StopApp ==
    /\ Takes("stop_app")
    /\ Continue(stop_app(World, Head(events).app), Tail(events))
    /\ obs' = [NoObs EXCEPT !.kind = "stop_app", !.time = now',
                            !.adm = [NoAdm EXCEPT !.imsi = apps[Head(events).app].ue,
                                                  !.bid = apps[Head(events).app].bearer]]
    /\ SchedulerUnchanged
    /\ UNCHANGED <<packet_id, tx_failures, dropped, delivered>>

\* The event of Ue.add_app.
AddApp ==
    /\ Takes("add_app")
    /\ LET e == Head(events)
           Then(r) ==
             /\ Continue(r.W, Tail(events))
             /\ obs' = [NoObs EXCEPT !.kind = "add_app", !.time = now',
                                     !.adm = [imsi |-> e.ue, bid |-> r.bid,
                                              par |-> [cfg.priority EXCEPT
                                                         !.default_bearer = e.par.default_bearer],
                                              chk |-> r.chk]]
       IN  Then(add_app(World, e.ue, e.app, e.par.default_bearer))
    /\ SchedulerUnchanged
    /\ UNCHANGED <<packet_id, tx_failures, dropped, delivered>>

\* The event of Des.do_activate_bearer.
DoActivateBearer ==
    /\ Takes("do_activate_bearer")
    /\ LET e == Head(events)
           Then(r) ==
             /\ Continue(r.W, Tail(events))
             /\ obs' = [NoObs EXCEPT !.kind = "do_activate_bearer", !.time = now',
                                     !.adm = [imsi |-> apps[e.app].ue, bid |-> r.bid,
                                              par |-> e.par, chk |-> r.chk]]
       IN  Then(do_activate_bearer(World, e.app, e.par))
    /\ SchedulerUnchanged
    /\ UNCHANGED <<packet_id, tx_failures, dropped, delivered>>

\* The event of Des.do_deactivate_bearer.
DoDeactivateBearer ==
    /\ Takes("do_deactivate_bearer")
    /\ LET e == Head(events)
       IN  /\ Continue(do_deactivate_bearer(World, e.ue, e.bid), Tail(events))
           /\ obs' = [NoObs EXCEPT !.kind = "do_deactivate_bearer", !.time = now',
                                   !.adm = [NoAdm EXCEPT !.imsi = e.ue, !.bid = e.bid]]
    /\ SchedulerUnchanged
    /\ UNCHANGED <<packet_id, tx_failures, dropped, delivered>>

\* The event of Bearer.modify_qos.
ModifyQos ==
    /\ Takes("modify_qos")
    /\ LET e == Head(events)
           Then(r) ==
             /\ Continue(r.W, Tail(events))
             /\ obs' = [NoObs EXCEPT !.kind = "modify_qos", !.time = now',
                                     !.adm = [NoAdm EXCEPT !.imsi = e.ue, !.bid = e.bid,
                                                           !.par = e.par],
                                     !.mod = r.mod]
       IN  IF <<e.ue, e.bid>> \in DOMAIN bearers
           THEN Then(modify_qos(World, e.ue, e.bid, e.par.qci, e.par.gbr, e.par.mbr))
           ELSE Then([W |-> Raise(World, "KeyError"), mod |-> NoMod])
    /\ SchedulerUnchanged
    /\ UNCHANGED <<packet_id, tx_failures, dropped, delivered>>

(***************************************************************************)
(* The scheduling of one TTI.                                              *)
(***************************************************************************)
\* Des.get_tx_success: the values it can return.  The uniform value is in
\* [0, 1), and the success is value >= rtx_threshold.
TxOutcomes(threshold) == IF threshold = 0 THEN {TRUE} ELSE BOOLEAN

Fails(draws) == Cardinality({i \in DOMAIN draws : ~draws[i]})

RECURSIVE AllocatedRbs(_, _)
AllocatedRbs(alloc, order) ==
    IF order = << >> THEN 0 ELSE alloc[Head(order)] + AllocatedRbs(alloc, Tail(order))

\* The QoS check of schedule(), when it is due: the new W.
qos_check_due(current_time) ==
    last_qos_check.never
        \/ current_time >= last_qos_check.time + cfg.qos_monitor_interval

\* SchedulerBase.rtx, for each of the entries made in a TTI: the entry is
\* appended to the list of its time.
RECURSIVE rtx_insert(_, _)
rtx_insert(pending, new) ==
    IF new = << >> THEN pending
    ELSE rtx_insert(IF Head(new).time \in DOMAIN pending
                    THEN [pending EXCEPT ![Head(new).time] = Append(@, Head(new).entry)]
                    ELSE pending @@ (Head(new).time :> <<Head(new).entry>>),
                    Tail(new))

\* rtx_pending after a TTI: the retransmissions that failed are put back,
\* the entries of the TTI are deleted, and the transmissions that failed wait.
rtx_pending_after(pending, current_time, put_back, failed) ==
    LET Deleted(p) == Restrict(p, DOMAIN p \ {current_time})
    IN  rtx_insert(Deleted(rtx_insert(pending, put_back)), failed)

schedule_next_skipping(current_time) ==
    Event(current_time + 2, "schedule", "none", 0, 0, NoPacket, NoPar, NoCause)

\* The event that schedule() adds for the next TTI.
schedule_next(current_time) ==
    Event(current_time + 1, "schedule", "none", 0, 0, NoPacket, NoPar, NoCause)

\* The bearers that had pending bytes at the loop of this and of every
\* invocation since they last got an RB, and got none: each with the time of
\* the first invocation that passed it over while it gave RBs to others.
passed_over_after(passed_over, at_loop, alloc, current_time) ==
    [k \in {k \in DOMAIN at_loop :
               /\ pending_size(at_loop[k]) > 0
               /\ k \notin DOMAIN alloc
               /\ (alloc # << >> \/ k \in DOMAIN passed_over)}
        |-> IF k \in DOMAIN passed_over THEN passed_over[k] ELSE current_time]

\* SchedulerRoundRobin.schedule, the event of every TTI.
Schedule ==
    /\ Takes("schedule")
    /\ LET t == Head(events).time
           due == qos_check_due(t)
           entries == ByUe(EntriesAt(rtx_pending, t))
           Transmitted(evs, qo, pr, rr, pa, fails) ==
             LET Then(r) == Continue(r.W, r.evs)
             IN  /\ tx_failures + fails <= MaxTxFailures
                 /\ tx_failures' = tx_failures + fails
                 /\ Then(add_events(pa.W, evs, pr.evs \o pa.evs, t))
                 /\ rtx_pending' = rtx_pending_after(rtx_pending, t, pr.put_back, pa.failed)
                 /\ last_ue' = rr.last_ue
                 /\ last_bid' = rr.last_bid
                 /\ last_qos_check' = IF due THEN [never |-> FALSE, time |-> t]
                                      ELSE last_qos_check
                 /\ obs' = [NoObs EXCEPT
                              !.kind = "schedule", !.time = t,
                              !.sched = [retry_rbs |-> pr.used_rbs,
                                         fresh_rbs |-> AllocatedRbs(rr.alloc, rr.order),
                                         entries |-> entries,
                                         retry_draws |-> pr.draws,
                                         forced |-> pr.forced,
                                         fresh_draws |-> pa.draws,
                                         qos_checked |-> due,
                                         qos |-> qo,
                                         allocated |-> TRUE,
                                         first |-> rr.first,
                                         left |-> rr.available_rbs,
                                         alloc |-> rr.alloc,
                                         at_loop |-> pr.W.bearers]]
           Allocated(evs, qo, pr, d1, rr) ==
             \E d2 \in [1..Len(rr.order) -> TxOutcomes(cfg.rtx_threshold)] :
                Transmitted(evs, qo, pr, rr,
                            process_allocations(pr.W, rr.order, rr.alloc, d2, t),
                            Fails(d1) + Fails(d2))
           Retransmitted(evs, qo, pr, d1) ==
             Allocated(evs, qo, pr, d1,
                       rr_allocate(pr.W, last_ue, last_bid,
                                   available_after(cfg.num_rbs, pr.used_rbs)))
           Checked(evs, q, qo) ==
             IF q.err # "none"
             THEN /\ Continue(q, evs)
                  /\ obs' = [NoObs EXCEPT !.kind = "schedule", !.time = t,
                                          !.sched = [NoSched EXCEPT !.qos_checked = due,
                                                                    !.qos = qo]]
                  /\ UNCHANGED <<rtx_pending, last_ue, last_bid, last_qos_check,
                                 tx_failures>>
             ELSE \E d1 \in [1..NumRetryDraws(entries) -> TxOutcomes(cfg.rtx_threshold)] :
                    Retransmitted(evs, qo, process_retransmissions(q, rtx_pending, d1, t), d1)
           Monitored(a, g) == Checked(a.evs, g.W, QosOf(a.W, g))
           Added(a) == IF due THEN Monitored(a, get_qos(a.W, t))
                       ELSE Checked(a.evs, a.W, NoQos)
       IN  Added(add_events(World, Tail(events), <<schedule_next(t)>>, t))
    /\ history' = [schedule_calls |-> history.schedule_calls + 1,
                   get_qos_calls |-> history.get_qos_calls
                                       + (IF obs'.sched.qos_checked THEN 1 ELSE 0),
                   last_allocated |-> IF obs'.sched.alloc # << >>
                                      THEN <<last_ue', last_bid'>>
                                      ELSE history.last_allocated,
                   passed_over |-> IF obs'.sched.allocated
                                   THEN passed_over_after(history.passed_over,
                                            obs'.sched.at_loop, obs'.sched.alloc,
                                            Head(events).time)
                                   ELSE history.passed_over]
    /\ UNCHANGED <<packet_id, dropped, delivered>>

(***************************************************************************)
(* The simulation that a scenario builds, and its run.                     *)
(***************************************************************************)
Built(sc) ==
    LET des == [NewDes(sc.cfg) EXCEPT
                  !.apps = [n \in {sc.apps[i].name : i \in 1..Len(sc.apps)} |->
                              (CHOOSE a \in {sc.apps[i] : i \in 1..Len(sc.apps)} :
                                   a.name = n).app]]
        Then(r) ==
          /\ r.W.err = "none"
          /\ events = r.evs
          /\ bearers = r.W.bearers
          /\ ues = r.W.ues
          /\ apps = r.W.apps
          /\ err = r.W.err
          /\ cfg = r.W.cfg
          /\ added = r.W.added
          /\ offered = r.W.offered
    IN  /\ Then(add_events(CreateUes(des, sc.ues), << >>, CreateApps(sc.apps) \o sc.acts, 0))
        /\ phase = "built"
        /\ now = 0
        /\ rtx_pending = << >>
        /\ last_ue = 0
        /\ last_bid = 0
        /\ last_qos_check = [never |-> TRUE, time |-> 0]
        /\ packet_id = 0
        /\ tx_failures = 0
        /\ dropped = {}
        /\ delivered = << >>
        /\ obs = NoObs
        /\ history = [schedule_calls |-> 0, get_qos_calls |-> 0,
                      last_allocated |-> <<0, 0>>, passed_over |-> << >>]

Init == \E sc \in Scenarios : Built(sc)

Next ==
    \/ StartSimulation
    \/ Schedule
    \/ StartApp
    \/ GeneratePacket
    \/ ReceivePacket
    \/ StopApp
    \/ AddApp
    \/ DoActivateBearer
    \/ DoDeactivateBearer
    \/ ModifyQos
    \/ EndSimulation

Spec == Init /\ [][Next]_vars

(***************************************************************************)
(* Properties.                                                             *)
(***************************************************************************)
\* The packets in the queues of the bearers.
QueuedPackets ==
    UNION {{bearers[k].queue[i] : i \in 1..Len(bearers[k].queue)} : k \in DOMAIN bearers}

\* The entries that wait in rtx_pending, each with the time of its key.
PendingEntries ==
    UNION {{[time |-> t, entry |-> rtx_pending[t][i]] : i \in 1..Len(rtx_pending[t])}
              : t \in DOMAIN rtx_pending}

CountIn(seq, Test(_)) == Cardinality({i \in 1..Len(seq) : Test(seq[i])})

\* C1: in every invocation of the scheduler, the RBs taken by the
\* retransmissions plus the RBs given to fresh transmissions are at most
\* num_rbs, and what the retransmissions leave is not negative.
C1_RbBudget ==
    obs.kind = "schedule" =>
        /\ obs.sched.retry_rbs + obs.sched.fresh_rbs <= cfg.num_rbs
        /\ cfg.num_rbs - obs.sched.retry_rbs >= 0

\* A TTI whose retransmissions and fresh transmissions share all the RBs.
C1_Witness ==
    /\ obs.kind = "schedule"
    /\ obs.sched.retry_rbs > 0
    /\ obs.sched.fresh_rbs > 0
    /\ obs.sched.retry_rbs + obs.sched.fresh_rbs = cfg.num_rbs

\* C2: every entry of rtx_pending has an attempt number in 1..4; an entry at
\* attempt 4 is transmitted without a draw of get_tx_success(), and is never
\* put back.
C2_HarqAttempts ==
    /\ \A pe \in PendingEntries : pe.entry.num_rtx \in 1..4
    /\ obs.kind = "schedule" =>
         /\ \A i \in 1..Len(obs.sched.entries) : obs.sched.entries[i].num_rtx \in 1..4
         /\ obs.sched.forced = CountIn(obs.sched.entries, LAMBDA e : e.num_rtx = 4)
         /\ obs.sched.retry_draws = CountIn(obs.sched.entries, LAMBDA e : e.num_rtx # 4)

\* A TTI that transmitted an entry at attempt 4.
C2_Witness ==
    /\ obs.kind = "schedule"
    /\ obs.sched.forced > 0
    /\ \E i \in 1..Len(obs.sched.entries) : obs.sched.entries[i].num_rtx = 4

\* C3: a fresh transmission that fails at t is retried at exactly t + 8, and
\* while it keeps failing at t + 16, t + 24 and t + 32; the retry at t + 32
\* succeeds, and a packet it completes is delivered at t + 36.
C3_RetryTiming ==
    /\ \A pe \in PendingEntries :
         /\ pe.time = pe.entry.t0 + 8 * pe.entry.num_rtx
         /\ phase = "running" =>
              \E i \in 1..Len(events) :
                 events[i].kind = "schedule" /\ events[i].time <= pe.time
    /\ obs.kind = "schedule" =>
         \A i \in 1..Len(obs.sched.entries) :
            obs.time = obs.sched.entries[i].t0 + 8 * obs.sched.entries[i].num_rtx
    /\ \A i \in 1..Len(events) :
         events[i].kind = "receive_packet" /\ events[i].cause.by = "rtx" =>
            /\ events[i].time = events[i].cause.t0 + 8 * events[i].cause.attempt + 4
            /\ events[i].cause.attempt = 4 => events[i].time = events[i].cause.t0 + 36

\* A packet completed by the retry at attempt 4 waits for its delivery.
C3_Witness ==
    \E i \in 1..Len(events) :
       /\ events[i].kind = "receive_packet"
       /\ events[i].cause.by = "rtx"
       /\ events[i].cause.attempt = 4

\* C4: for every queued packet, tx_size + rtx_waiting_size <= size, and
\* tx_size, rtx_waiting_size and the pending bytes are not negative; no
\* assertion of the packet's setters fails.
C4_PacketBytes ==
    /\ err # "AssertionError"
    /\ \A p \in QueuedPackets :
         /\ p.tx_size + p.rtx_waiting_size <= p.size
         /\ p.tx_size >= 0
         /\ p.rtx_waiting_size >= 0
         /\ p.pending >= 0

\* A queued packet all of whose bytes are sent or await a retransmission,
\* some of each.
C4_Witness ==
    \E p \in QueuedPackets :
       /\ p.tx_size > 0
       /\ p.rtx_waiting_size > 0
       /\ p.tx_size + p.rtx_waiting_size = p.size

\* C5: whenever the scheduler runs, the pending bytes it reads of every
\* queued packet are size - tx_size - rtx_waiting_size.
C5_PendingAsRead ==
    (phase = "running" /\ events # << >> /\ Head(events).kind = "schedule") =>
        \A p \in QueuedPackets : p.pending = p.size - p.tx_size - p.rtx_waiting_size

\* C6: the bytes used in the queue of a bearer never exceed its capacity.
C6_QueueCapacity ==
    \A k \in DOMAIN bearers : queue_used(bearers[k]) <= bearers[k].queue_size

\* A packet was just discarded by a queue that holds another one.
C6_Witness ==
    /\ obs.kind = "generate_packet"
    /\ obs.gen.made
    /\ obs.gen.packet.pid \in dropped
    /\ obs.gen.key \in DOMAIN bearers
    /\ queue_used(bearers[obs.gen.key]) > 0
    /\ queue_used(bearers[obs.gen.key]) + obs.gen.packet.size
           > bearers[obs.gen.key].queue_size

TotalLoss(b) == SumSeq([i \in 1..Len(SetToSortedSeq(DOMAIN b.loss)) |->
                           b.loss[SetToSortedSeq(DOMAIN b.loss)[i]]])

\* What C7 asks of a step that generates a packet.
EnqueueStep ==
    (obs'.kind \in {"start_app", "generate_packet"} /\ obs'.gen.made) =>
        LET k == obs'.gen.key
            p == obs'.gen.packet
        IN  IF queue_used(bearers[k]) + p.size > bearers[k].queue_size
            THEN /\ bearers'[k].queue = bearers[k].queue
                 /\ TotalLoss(bearers'[k]) = TotalLoss(bearers[k]) + p.size
                 /\ p.pid \in dropped'
            ELSE /\ bearers'[k].queue = Append(bearers[k].queue, p)
                 /\ bearers'[k].loss = bearers[k].loss
                 /\ p.pid \notin dropped'

\* C7: a packet that, with its overhead, does not fit in the queue leaves the
\* queue as it was, adds its size to the loss once, and is never delivered;
\* a packet that fits is appended at the tail and the loss does not change.
C7_Enqueue ==
    /\ [][EnqueueStep]_vars
    /\ [](dropped \cap DOMAIN delivered = {})

\* A packet was discarded and another one, generated later, delivered.
C7_Witness ==
    /\ dropped # {}
    /\ \E pid \in DOMAIN delivered : \E d \in dropped : pid > d

\* C8: the default bearer (BID 1) of every UE is in the bearer list in every
\* state: no stop of an application, deactivation, pre-emption for an
\* activation or for the QoS removes it.
C8_DefaultBearerStays ==
    \A imsi \in DOMAIN ues : <<imsi, 1>> \in DOMAIN bearers

\* The deactivation of a default bearer was asked for, and the bearer is there.
C8_Witness ==
    /\ obs.kind = "do_deactivate_bearer"
    /\ obs.adm.bid = 1
    /\ <<obs.adm.imsi, 1>> \in DOMAIN bearers

\* A dedicated bearer was asked for and the policy checked the request.
ActivationChecked(o) ==
    /\ o.kind \in {"add_app", "do_activate_bearer"}
    /\ o.adm.chk.checked

\* C9: right after the sample policy accepts the activation of a GBR bearer,
\* directly or by pre-emption, the RBs per second that the GBR bearers of the
\* list reserve are at most num_rbs * 1000.
C9_GbrBudget ==
    (ActivationChecked(obs) /\ obs.adm.chk.success /\ obs.adm.par.qci < 5) =>
        get_used_gbr_rbs(World) <= cfg.num_rbs * 1000

\* What C10 asks of a step that checks the activation of a bearer with
\* pci = FALSE: a bearer is added if and only if the test holds on the list
\* as it was.
ActivationStep ==
    (ActivationChecked(obs') /\ ~obs'.adm.par.pci) =>
        LET par == obs'.adm.par
            used == get_used_gbr_rbs(World)
            needed == get_needed_gbr_rbs(World, par.gbr, ues[obs'.adm.imsi].mcs, par.qci)
            accepted == DOMAIN bearers' \ DOMAIN bearers # {}
        IN  /\ par.qci \in 1..9
            /\ accepted <=> (par.qci > 5 \/ used + needed <= cfg.num_rbs * 1000)
            /\ accepted <=> obs'.adm.chk.success

PreemptionDecisionStep ==
    (ActivationChecked(obs') /\ obs'.adm.chk.tried) =>
        (obs'.adm.chk.success <=>
            obs'.adm.chk.used - CandidateRbs(World, Candidates(World, obs'.adm.par.arp))
                + obs'.adm.chk.needed <= cfg.num_rbs * 1000)

\* C11: attempt_preemption of the preempt-all policy reports success if and
\* only if rbs_used minus the RBs of the victims plus rbs_needed is at most
\* num_rbs * 1000.
C11_PreemptionSuccess == [][PreemptionDecisionStep]_vars

\* What C12 asks of a step in which the pre-emption policy is tried for an
\* activation: the bearers it names and the bearers that leave the list.
PreemptionVictimsStep ==
    (ActivationChecked(obs') /\ obs'.adm.chk.tried) =>
        LET chk == obs'.adm.chk
            victims == {chk.preempted[i] : i \in 1..Len(chk.preempted)}
            eligible == {k \in DOMAIN bearers :
                           /\ bearers[k].pvi
                           /\ bearers[k].qci < 5
                           /\ bearers[k].arp > obs'.adm.par.arp}
            removed == DOMAIN bearers \ DOMAIN bearers'
        IN  /\ victims \subseteq eligible
            /\ \A k \in victims : k[2] # 1
            /\ removed = victims
            /\ chk.success => victims = eligible
            /\ ~chk.success => victims = {}

\* C12: the bearers torn down by a pre-emption for an activation have
\* pvi = TRUE, qci < 5 and an arp greater than the candidate's; on success
\* they are all the bearers of the list of that kind, and on failure no
\* bearer is named and none is torn down.
C12_PreemptionVictims == [][PreemptionVictimsStep]_vars

\* A pre-emption tore down a bearer and spared one with a greater arp that
\* cannot be pre-empted.
C12_Witness ==
    /\ obs.kind = "do_activate_bearer"
    /\ obs.adm.chk.tried
    /\ obs.adm.chk.success
    /\ Len(obs.adm.chk.preempted) > 0
    /\ \E k \in DOMAIN bearers :
         /\ ~bearers[k].pvi
         /\ bearers[k].qci < 5
         /\ bearers[k].arp > obs.adm.par.arp

\* What C13 asks of a step that removes bearers from the list: they are
\* dedicated bearers, and the applications that were bound to them are bound
\* to the default bearer of their UE.
TeardownStep ==
    \A k \in DOMAIN bearers \ DOMAIN bearers' :
        /\ k[2] > 1
        /\ <<k[1], 1>> \in DOMAIN bearers'
        /\ \A a \in DOMAIN apps :
             (apps[a].ue = k[1] /\ apps[a].bearer = k[2]) =>
                 (apps'[a].ue = k[1] /\ apps'[a].bearer = 1)

\* The bearer of every application that has one is in the list, and a packet
\* that an application generates is offered to the bearer the application is
\* bound to.
BoundToRegistered ==
    /\ \A a \in DOMAIN apps :
         apps[a].bearer # 0 => <<apps[a].ue, apps[a].bearer>> \in DOMAIN bearers
    /\ (obs.kind \in {"start_app", "generate_packet"} /\ obs.gen.made) =>
         /\ obs.gen.key \in DOMAIN bearers
         /\ obs.gen.key = <<apps[obs.gen.packet.app].ue, apps[obs.gen.packet.app].bearer>>

\* C13: after the teardown of a dedicated bearer, by the stop of its
\* application, a deactivation event or a pre-emption, the bearer is not in
\* the list, the applications that were bound to it are bound to the default
\* bearer of their UE, and the packets they generate afterwards are enqueued
\* on the default bearer.
C13_TeardownRebinds == [][TeardownStep]_vars /\ []BoundToRegistered

\* An application whose dedicated bearer was deactivated generated a packet,
\* which is in the queue of the default bearer.
C13_Witness ==
    /\ obs.kind = "generate_packet"
    /\ obs.gen.made
    /\ obs.gen.packet.app = "a1"
    /\ obs.gen.key = <<1, 1>>
    /\ <<1, 3>> \notin DOMAIN bearers
    /\ \E i \in 1..Len(bearers[<<1, 1>>].queue) :
         bearers[<<1, 1>>].queue[i].pid = obs.gen.packet.pid

\* What C14 asks of an add_app step whose request for a dedicated bearer
\* with pci = FALSE is denied.
AddAppDeniedStep ==
    (/\ obs'.kind = "add_app"
     /\ obs'.adm.chk.checked
     /\ ~obs'.adm.chk.direct
     /\ ~obs'.adm.par.pci) =>
        LET imsi == obs'.adm.imsi
            app == Head(events).app
        IN  /\ ~obs'.adm.chk.tried
            /\ ~obs'.adm.chk.success
            /\ bearers' = bearers
            /\ ues'[imsi].bearer_count = ues[imsi].bearer_count
            /\ ues'[imsi].next_port = ues[imsi].next_port
            /\ apps'[app].ue = imsi
            /\ apps'[app].bearer = 1
            /\ err' = "none"

\* C14: when add_app asks for a dedicated bearer and the sample policy denies
\* a candidate with pci = FALSE, the pre-emption policy is not called, no
\* bearer is torn down, the bearer list, the UE's count of dedicated bearers
\* and its next_port are unchanged, and the application is bound to the
\* default bearer of the UE.
C14_DeniedAddApp == [][AddAppDeniedStep]_vars

\* The second application was denied a dedicated bearer and is on the default
\* bearer of its UE, while the first has its dedicated bearer.
C14_Witness ==
    /\ obs.kind = "add_app"
    /\ obs.adm.chk.checked
    /\ ~obs.adm.chk.success
    /\ ~obs.adm.par.pci
    /\ obs.adm.chk.used + obs.adm.chk.needed > cfg.num_rbs * 1000
    /\ cfg.preemption_policy = "preemptall"
    /\ apps["a3"].bearer = 1
    /\ apps["a1"].bearer > 1

DedicatedBearers(imsi) == {k \in DOMAIN bearers : k[1] = imsi /\ k[2] > 1}

\* C15: a UE never holds more than 10 dedicated bearers: the request for an
\* 11th, by add_app or by an activation event, fails and creates no bearer.
C15_DedicatedLimit ==
    \A imsi \in DOMAIN ues : Cardinality(DedicatedBearers(imsi)) <= 10

\* What C16 asks of an activation event whose bearer is denied.
DeniedActivationStep ==
    (/\ obs'.kind = "do_activate_bearer"
     /\ obs'.adm.chk.checked
     /\ ~obs'.adm.chk.success) =>
        LET app == Head(events).app
        IN  /\ err' = "none"
            /\ phase' = "running"
            /\ apps'[app].bearer = apps[app].bearer
            /\ DOMAIN bearers' = DOMAIN bearers

\* C16: when the bearer asked for by an activation event is denied, the
\* event ends without an error, the application keeps its bearer, no bearer
\* is added to the list and the simulation goes on.
C16_DeniedActivation == [][DeniedActivationStep]_vars

\* What C17 asks of an accepted activation event for an application that is
\* on the default bearer.
ActivationFromDefaultStep ==
    (/\ obs'.kind = "do_activate_bearer"
     /\ obs'.adm.chk.success
     /\ apps[Head(events).app].bearer = 1) =>
        /\ err' = "none"
        /\ obs'.adm.bid > 1
        /\ apps'[Head(events).app].bearer = obs'.adm.bid

\* C17: change_bearer to a bearer of the application's UE, while the
\* application is on the default bearer, completes and leaves the
\* application on the new bearer: an accepted activation event for such an
\* application ends with the application on the new dedicated bearer.
C17_ChangeFromDefault == [][ActivationFromDefaultStep]_vars

\* The bearer of a modify_qos step has the new QCI, GBR and MBR after it.
ModifiedTo(k, new) ==
    /\ k \in DOMAIN bearers'
    /\ bearers'[k].qci = new.qci
    /\ bearers'[k].gbr = new.gbr
    /\ bearers'[k].mbr = new.mbr

\* What C18 asks of a modify_qos step under the trace-only policy.
ModifyTraceOnlyStep ==
    (/\ obs'.kind = "modify_qos"
     /\ cfg.access_control = "traceonly"
     /\ <<obs'.adm.imsi, obs'.adm.bid>> \in DOMAIN bearers) =>
        /\ obs'.mod.ret = "True"
        /\ err' = "none"
        /\ ModifiedTo(<<obs'.adm.imsi, obs'.adm.bid>>, obs'.adm.par)

\* C18: under the trace-only policy modify_qos(new_qci, new_gbr, new_mbr)
\* reports success on every bearer, and the bearer's qci, gbr and mbr are the
\* new values afterwards.
C18_TraceOnlyModify == [][ModifyTraceOnlyStep]_vars

\* What C19 asks of a modify_qos step under the sample policy on a bearer
\* with pci = FALSE; the QCIs from 5 on are the non-GBR ones.
ModifySampleStep ==
    (/\ obs'.kind = "modify_qos"
     /\ cfg.access_control = "sample"
     /\ <<obs'.adm.imsi, obs'.adm.bid>> \in DOMAIN bearers
     /\ ~bearers[<<obs'.adm.imsi, obs'.adm.bid>>].pci) =>
        LET k == <<obs'.adm.imsi, obs'.adm.bid>>
            new == obs'.adm.par
            mcs == ues[obs'.adm.imsi].mcs
            Holds(used, needed_old, needed_new) ==
              LET test == \/ new.qci >= 5
                          \/ new.gbr <= bearers[k].gbr
                          \/ used + (needed_new - needed_old) <= cfg.num_rbs * 1000
              IN  /\ (obs'.mod.ret = "True") <=> test
                  /\ test => (err' = "none" /\ ModifiedTo(k, new))
                  /\ ~test => (err' = "none" /\ bearers' = bearers)
        IN  Holds(get_used_gbr_rbs(World),
                  get_needed_gbr_rbs(World, bearers[k].gbr, mcs, bearers[k].qci),
                  get_needed_gbr_rbs(World, new.gbr, mcs, new.qci))

\* C19: under the sample policy with pci = FALSE, modify_qos is accepted if
\* and only if the new QCI is non-GBR, or new_gbr <= old_gbr, or
\* used + (needed_new - needed_old) <= num_rbs * 1000; when accepted qci, gbr
\* and mbr become the new values, and when denied they and the bearer list
\* are unchanged.
C19_SampleModify == [][ModifySampleStep]_vars

\* What C20 asks of a step: the time does not go back, and a step of the
\* loop of start_simulation dispatches the first event, moves the time to
\* it, and leaves no event before that time in the queue.
DispatchStep ==
    /\ now' >= now
    /\ phase = "running" =>
         /\ events # << >>
         /\ now' = Head(events).time
         /\ obs'.time = now'
         /\ \A i \in 1..Len(events') : events'[i].time >= now'

\* The queue of the events is in the order of their times, and none is in
\* the past.
EventsInOrder ==
    /\ \A i \in 1..Len(events) : events[i].time >= now
    /\ \A i \in 1..Len(events) : \A j \in i..Len(events) :
         events[i].time <= events[j].time

\* C20: in a run the events are dispatched in non-decreasing order of their
\* times, and now never decreases from a dispatch to the next, whatever
\* events the callbacks add.
C20_MonotoneTime == [][DispatchStep]_vars /\ []EventsInOrder

\* A packet was generated by an event that was added during the run, and the
\* scheduler's event of the same millisecond is the next one.
C20_Witness ==
    /\ obs.kind = "generate_packet"
    /\ now > APP_SETUP_LEAD
    /\ obs.time = now
    /\ events # << >>
    /\ Head(events).kind = "schedule"
    /\ Head(events).time = now
    /\ \E i \in 1..Len(events) : events[i].time > now

\* What C21 asks of a step of the loop: the events of the time of the
\* dispatched event that stay in the queue or join it were all inserted
\* after that event.
FifoStep ==
    (phase = "running" /\ events # << >>) =>
        \A i \in 1..Len(events') :
           events'[i].time = Head(events).time => events'[i].seq > Head(events).seq

\* The events of the queue that have the same time are in the order of
\* their insertion.
FifoOrder ==
    \A i \in 1..Len(events) : \A j \in (i + 1)..Len(events) :
       events[i].time = events[j].time => events[i].seq < events[j].seq

\* C21: two events with the same time are dispatched in the order in which
\* they were scheduled, and an event scheduled for the current millisecond
\* from inside a callback runs after every event already queued for that
\* millisecond.
C21_FifoDispatch == [][FifoStep]_vars /\ []FifoOrder

\* start_app scheduled the next packet for the current millisecond, and the
\* event waits behind the scheduler's event of that millisecond.
C21_Witness ==
    /\ obs.kind = "start_app"
    /\ Len(events) >= 2
    /\ events[1].kind = "schedule"
    /\ events[1].time = now
    /\ events[2].kind = "generate_packet"
    /\ events[2].time = now
    /\ events[2].seq = added
    /\ events[1].seq < events[2].seq

\* What C22 asks of a step, of the events it hands to add_event.
AddEventStep ==
    LET old == IF phase = "running" THEN Tail(events) ELSE events
        n == Len(offered')
        past == {i \in 1..n : offered'[i].time < now'}
        InQueue(e) == \E j \in 1..Len(events') : events'[j] = e
    IN  phase' # "done" =>
            IF past = {}
            THEN /\ err' # "ScheduledInPast"
                 /\ Len(events') = Len(old) + n
                 /\ added' = added + n
                 /\ \A i \in 1..n : InQueue(offered'[i])
            ELSE /\ err' = "ScheduledInPast"
                 /\ past = {n}
                 /\ Len(events') = Len(old) + n - 1
                 /\ added' = added + n - 1
                 /\ \A i \in 1..(n - 1) : InQueue(offered'[i])
                 /\ \A j \in 1..Len(events') : events'[j].seq <= added'
                 /\ n = 1 => events' = old

\* C22: add_event of an event with time < now fails with the ScheduledInPast
\* error and leaves the queue of the events as it was; add_event of an event
\* with time >= now, time = now included, inserts the event.
C22_AddEvent == [][AddEventStep]_vars

\* An application scheduled its next packet one millisecond in the past: the
\* run ended with the error, and the event is not in the queue.
C22_Witness ==
    /\ err = "ScheduledInPast"
    /\ obs.kind = "start_app"
    /\ Len(offered) = 1
    /\ offered[1].kind = "generate_packet"
    /\ offered[1].time = now - 1
    /\ \A j \in 1..Len(events) : events[j].kind # "generate_packet"

\* What C23 asks of a step: the dispatch of end_simulation empties the queue
\* and ends the loop, and nothing happens after the loop has ended.
EndStep ==
    /\ phase # "done"
    /\ (phase = "running" /\ events # << >> /\ Head(events).kind = "end_simulation") =>
          /\ events' = << >>
          /\ phase' = "done"
          /\ now' = cfg.stop_time

\* No event later than stop_time was dispatched.
NothingLate ==
    /\ now <= cfg.stop_time
    /\ obs.time <= cfg.stop_time
    /\ phase = "done" => (events = << >> /\ obs.kind = "end_simulation")

\* C23: when the end_simulation event is dispatched every remaining event is
\* discarded and no callback runs after it; no event with a time greater
\* than stop_time is ever dispatched, and the loop returns.
C23_EndDrains == [][EndStep]_vars /\ []NothingLate

\* The loop has ended, and end_simulation discarded the scheduler's next
\* event and another one.
C23_Witness ==
    /\ phase = "done"
    /\ obs.kind = "end_simulation"
    /\ obs.cleared >= 2
    /\ events = << >>

SchedulerEvents == {i \in 1..Len(events) : events[i].kind = "schedule"}

\* What C24 asks of a step: the call of schedule() number k + 1 is at
\* millisecond k and hands add_event one event, for millisecond k + 1, and
\* no other step is a call of schedule().
TickStep ==
    IF phase = "running" /\ events # << >> /\ Head(events).kind = "schedule"
    THEN /\ Head(events).time = history.schedule_calls
         /\ history'.schedule_calls = history.schedule_calls + 1
         /\ Len(offered') >= 1
         /\ offered'[1].kind = "schedule"
         /\ offered'[1].time = now' + 1
         /\ \A i \in 2..Len(offered') : offered'[i].kind # "schedule"
    ELSE /\ history'.schedule_calls = history.schedule_calls
         /\ \A i \in 1..Len(offered') :
               offered'[i].kind = "schedule" => (phase = "built" /\ offered'[i].time = 0)

\* At most one event of the scheduler waits; in the loop there is one, for
\* the millisecond that follows the last call, and when the loop has ended
\* schedule() was called stop_time times.
OneSchedulerEvent ==
    /\ Cardinality(SchedulerEvents) <= 1
    /\ phase = "built" => (SchedulerEvents = {} /\ history.schedule_calls = 0)
    /\ phase = "running" =>
          /\ Cardinality(SchedulerEvents) = 1
          /\ \A i \in SchedulerEvents : events[i].time = history.schedule_calls
    /\ phase = "done" => history.schedule_calls = cfg.stop_time

\* C24: the scheduler runs exactly once at every integer millisecond t with
\* 0 <= t < stop_time: each invocation schedules exactly one next invocation
\* at now + 1 ms, and at any moment at most one scheduler event is pending.
C24_SchedulerTicks == [][TickStep]_vars /\ []OneSchedulerEvent

\* The loop has ended after a call of schedule() at each millisecond before
\* stop_time, some of them with a retransmission.
C24_Witness ==
    /\ phase = "done"
    /\ history.schedule_calls = cfg.stop_time
    /\ cfg.stop_time > 0
    /\ tx_failures > 0

\* The position of x in seq, 0 when it is not there.
PositionIn(seq, x) == IF \E i \in 1..Len(seq) : seq[i] = x
                      THEN CHOOSE i \in 1..Len(seq) : seq[i] = x
                      ELSE 0

\* What C25 asks of a call of schedule() that reaches the Round-Robin loop:
\* the bearer the loop looks at first.
RoundRobinStartStep ==
    (/\ phase = "running" /\ events # << >> /\ Head(events).kind = "schedule"
     /\ obs'.sched.allocated) =>
        LET keys == BearerKeys(obs'.sched.at_loop)
            pos == PositionIn(keys, history.last_allocated)
        IN  obs'.sched.first = IF pos = 0 THEN keys[1] ELSE keys[(pos % Len(keys)) + 1]

\* C25: in each invocation the Round-Robin loop starts at the bearer that
\* follows, in the order of the list (IMSI, then BID, wrapping around), the
\* bearer that got the last RB of an earlier invocation, or at the first
\* bearer of the list when that bearer is not in the list.
C25_RoundRobinStart == [][RoundRobinStartStep]_vars

\* The bytes of the packets of a queue that were neither sent nor wait for a
\* retransmission.
RECURSIVE BytesUnsent(_)
BytesUnsent(q) ==
    IF q = << >> THEN 0
    ELSE (Head(q).size - Head(q).tx_size - Head(q).rtx_waiting_size) + BytesUnsent(Tail(q))

\* C26: when the Round-Robin loop of an invocation stops, either no RB of
\* the interval is left or no bearer has pending bytes beyond the transport
\* block of the RBs allocated to it in the interval.
C26_WorkConserving ==
    (obs.kind = "schedule" /\ obs.sched.allocated) =>
        \/ obs.sched.left = 0
        \/ \A k \in DOMAIN obs.sched.at_loop :
              BytesUnsent(obs.sched.at_loop[k].queue)
                  <= bytes_out_of(World, obs.sched.alloc, k)

\* C27: over a whole run the QoS monitor is invoked exactly
\* stop_time \div qos_monitor_interval times, and with the QoS trace on each
\* invocation writes one line for each bearer of the list at that tick.
C27_QosTicks ==
    /\ phase = "done" =>
          history.get_qos_calls = cfg.stop_time \div cfg.qos_monitor_interval
    /\ (obs.kind = "schedule" /\ obs.sched.qos_checked /\ cfg.trace_qos) =>
          obs.sched.qos.lines = obs.sched.qos.flows


\* What C28 asks of a call of schedule() that invokes the QoS monitor: the
\* bearers that leave the list.
QosTeardownStep ==
    (/\ phase = "running" /\ events # << >> /\ Head(events).kind = "schedule"
     /\ obs'.sched.qos_checked) =>
        /\ Cardinality(DOMAIN bearers \ DOMAIN bearers') <= 1
        /\ ~cfg.preempt_qos => DOMAIN bearers \ DOMAIN bearers' = {}

\* C28: one invocation of the QoS monitor tears down at most one bearer,
\* whatever the number of bearers that miss the targets of their QCI and of
\* bearers that can be pre-empted, and none when the pre-emption for the QoS
\* is off.
C28_QosTeardownBound == [][QosTeardownStep]_vars

\* The monitor was invoked with the pre-emption for the QoS on, for a bearer
\* that misses its targets and with two bearers that can be pre-empted.
C28_Witness ==
    /\ obs.kind = "schedule"
    /\ obs.sched.qos_checked
    /\ cfg.preempt_qos
    /\ obs.sched.qos.preempted
    /\ obs.sched.qos.arp_lines >= 2
    /\ Cardinality(DOMAIN bearers) = obs.sched.qos.flows

\* C29: an invocation of the QoS monitor in which the pre-emption for the
\* QoS succeeds writes exactly one ARP_PRE-EMPTED line in the trace, whatever
\* the number of bearers that can be pre-empted.
C29_OnePreemptionLine ==
    (obs.kind = "schedule" /\ obs.sched.qos_checked /\ obs.sched.qos.preempted) =>
        obs.sched.qos.arp_lines = 1


\* An application with a positive packet interval whose session is longer
\* than the time between its start and its stop.
UnboundedSession(a) ==
    /\ a.packet_interval > 0
    /\ a.stop_time <= cfg.stop_time
    /\ a.packets_session * a.packet_interval > a.stop_time - a.start_time

\* The packets that fit between the start and the stop of a, at start_time,
\* start_time + packet_interval, ..., before stop_time.
PacketsDue(a) == (a.stop_time - a.start_time + a.packet_interval - 1) \div a.packet_interval

\* C30: an application with a constant packet interval I > 0, a session that
\* does not end, a start time S and a stop time E <= stop_time generates its
\* packets exactly at S, S + I, S + 2I, ... strictly before E: packet number
\* n is generated at S + (n - 1) I < E, and when the simulation has ended all
\* of those were generated.
C30_GenerationWindow ==
    /\ \A n \in DOMAIN apps :
          (/\ obs.kind \in {"start_app", "generate_packet"}
           /\ obs.gen.made /\ obs.gen.packet.app = n
           /\ UnboundedSession(apps[n])) =>
              /\ obs.time = apps[n].start_time
                               + (apps[n].count_packets_session - 1) * apps[n].packet_interval
              /\ obs.time < apps[n].stop_time
    /\ \A n \in DOMAIN apps :
          (phase = "done" /\ UnboundedSession(apps[n])) =>
              apps[n].count_packets_session = PacketsDue(apps[n])


\* The PIDs of the packets of a queue.
PidsOf(q) == {q[i].pid : i \in 1..Len(q)}

\* The delivery events among the events a step hands to add_event.
DeliveriesOffered(evs) == SelectSeq(evs, LAMBDA e : e.kind = "receive_packet")

\* What C31 asks of a step: the delivery events it schedules are for
\* now + TX_DELAY and for packets wholly sent, that were queued and are no
\* longer; and a packet leaves the queue of a bearer that stays in the list
\* with exactly one such event.
DeliveryStep ==
    LET recv == DeliveriesOffered(offered')
        kept == DOMAIN bearers \cap DOMAIN bearers'
        Left(k) == PidsOf(bearers[k].queue) \ PidsOf(bearers'[k].queue)
    IN  /\ \A i \in 1..Len(recv) :
              /\ recv[i].time = now' + TX_DELAY
              /\ recv[i].pkt.tx_size = recv[i].pkt.size
              /\ recv[i].pkt.rtx_waiting_size = 0
              /\ recv[i].pkt.pending = 0
              /\ \E k \in kept : recv[i].pkt.pid \in Left(k)
        /\ \A k \in kept : \A pid \in Left(k) :
              Cardinality({i \in 1..Len(recv) : recv[i].pkt.pid = pid}) = 1
        /\ recv # << >> => (phase = "running" /\ Head(events).kind = "schedule")

\* No queued packet is wholly sent, and no packet was delivered twice or
\* waits for a second delivery.
DeliveredOnce ==
    /\ \A p \in QueuedPackets : p.tx_size < p.size
    /\ \A pid \in DOMAIN delivered : delivered[pid] <= 1
    /\ \A i, j \in 1..Len(events) :
          (/\ events[i].kind = "receive_packet" /\ events[j].kind = "receive_packet"
           /\ events[i].pkt.pid = events[j].pkt.pid) => i = j
    /\ \A i \in 1..Len(events) :
          events[i].kind = "receive_packet" =>
            /\ events[i].pkt.pid \notin DOMAIN delivered
            /\ \A p \in QueuedPackets : p.pid # events[i].pkt.pid

\* C31: a packet is removed from the queue of its bearer and its delivery
\* to the application that generated it is scheduled at now + 4 ms exactly
\* when its tx_size reaches its size, by a fresh transmission or by a
\* retransmission that succeeds, never while bytes of it are pending or wait
\* for a retransmission; each packet is delivered at most once.
C31_Delivery == [][DeliveryStep]_vars /\ []DeliveredOnce

\* A packet completed by a retransmission waits for its delivery, after
\* another packet was delivered.
C31_Witness ==
    /\ \E i \in 1..Len(events) :
          /\ events[i].kind = "receive_packet"
          /\ events[i].cause.by = "rtx"
          /\ events[i].time = now + TX_DELAY
    /\ \E pid \in DOMAIN delivered : delivered[pid] = 1


\* The bytes of a packet that were sent or wait for a retransmission.
BytesTaken(p) == p.tx_size + p.rtx_waiting_size

\* q[i] got bytes between the queue q and the queue after: it is no longer
\* there, or has more bytes taken.
GotBytes(q, after, i) ==
    \A j \in 1..Len(after) :
        after[j].pid = q[i].pid => BytesTaken(after[j]) > BytesTaken(q[i])

\* q[i] has no bytes pending in the queue after: it is no longer there, or
\* all of its bytes are taken.
NothingPending(q, after, i) ==
    \A j \in 1..Len(after) :
        after[j].pid = q[i].pid => BytesTaken(after[j]) = after[j].size

\* C32: Bearer.tx takes the pending bytes of the packets in the order of the
\* queue, from its head: after the call a packet got bytes only if no packet
\* ahead of it in the queue has bytes pending, whatever the queue holds,
\* packets never transmitted from included.
C32_HeadFirst ==
    (obs.kind = "schedule" /\ obs.sched.allocated /\ err = "none") =>
        \A k \in DOMAIN obs.sched.alloc :
            LET q == obs.sched.at_loop[k].queue
                after == bearers[k].queue
            IN  \A i, j \in 1..Len(q) :
                    (i < j /\ GotBytes(q, after, j)) => NothingPending(q, after, i)


\* The entries of rtx_pending due at t whose bearer is not in the list.
OrphanEntries(t) ==
    {i \in 1..Len(EntriesAt(rtx_pending, t)) :
        <<EntriesAt(rtx_pending, t)[i].ue, EntriesAt(rtx_pending, t)[i].bid>>
            \notin DOMAIN bearers}

\* What C33 asks of a call of schedule(): an entry due now whose bearer is
\* gone is not in rtx_pending afterwards, and when all the entries due are
\* such and nothing else touches the bearers, the bearers are as before.
OrphanRetryStep ==
    (phase = "running" /\ events # << >> /\ Head(events).kind = "schedule") =>
        LET due == EntriesAt(rtx_pending, now')
            later == EntriesAt(rtx_pending', now' + RTX_DELAY)
        IN  /\ \A i \in OrphanEntries(now') :
                  ~\E j \in 1..Len(later) :
                      /\ later[j].ue = due[i].ue
                      /\ later[j].bid = due[i].bid
                      /\ later[j].t0 = due[i].t0
                      /\ later[j].num_rtx = due[i].num_rtx + 1
            /\ (/\ OrphanEntries(now') = 1..Len(due)
                 /\ obs'.sched.alloc = << >>
                 /\ ~obs'.sched.qos_checked) => bearers' = bearers

\* C33: a retransmission whose bearer has left the list is dropped when it
\* is processed: it changes the state of no bearer and is not put back in
\* rtx_pending for a later TTI.
C33_OrphanRetryDropped == [][OrphanRetryStep]_vars


\* The applications bound to the bearer k.
AppsOn(k) == {a \in DOMAIN apps : apps[a].ue = k[1] /\ apps[a].bearer = k[2]}

\* C35: in every state each dedicated bearer (BID > 1) of the list is linked
\* to exactly one application, also after a do_activate_bearer event moved
\* an application that was on a dedicated bearer to a new one.
C35_DedicatedOneToOne ==
    \A k \in DOMAIN bearers : k[2] > 1 => Cardinality(AppsOn(k)) = 1


\* The dedicated bearers of a UE in the list.
DedicatedOf(imsi) == {k \in DOMAIN bearers : k[1] = imsi /\ k[2] > 1}

\* C39: for every UE, in every state between two events, the bearer_count
\* of the UE is the number of bearers with BID > 1 in the list for it, after
\* any sequence of accepted and denied activations, stops of applications,
\* deactivations and pre-emptions.
C39_BearerCount ==
    \A imsi \in DOMAIN ues : ues[imsi].bearer_count = Cardinality(DedicatedOf(imsi))

\* An activation was accepted after the pre-emption of a bearer, and a UE
\* has a dedicated bearer.
C39_Witness ==
    /\ obs.kind = "do_activate_bearer"
    /\ obs.adm.chk.preempted # << >>
    /\ obs.adm.bid > 1
    /\ \E imsi \in DOMAIN ues : ues[imsi].bearer_count >= 1


\* What C40 asks of a modify_qos step that the sample policy accepts: the
\* RBs per second that the GBR bearers reserve stay within num_rbs * 1000.
ModifyBudgetStep ==
    (/\ obs'.kind = "modify_qos"
     /\ cfg.access_control = "sample"
     /\ obs'.mod.ret = "True"
     /\ get_used_gbr_rbs(World) <= cfg.num_rbs * 1000) =>
        get_used_gbr_rbs([World EXCEPT !.bearers = bearers', !.ues = ues'])
            <= cfg.num_rbs * 1000

\* C40: under the sample policy, if used_gbr_rbs <= num_rbs * 1000 holds
\* before a modify_qos that is accepted, it holds after the qci and the gbr
\* of the bearer are updated, also when the modification is from a non-GBR
\* QCI to a GBR QCI and keeps or lowers the gbr.
C40_ModifyKeepsBudget == [][ModifyBudgetStep]_vars


\* The RBs the Round-Robin loop gave to a bearer in this TTI.
RbsOf(alloc, k) == IF k \in DOMAIN alloc THEN alloc[k] ELSE 0

\* C36: when the Round-Robin loop of an invocation stops, any two bearers
\* that both still have pending bytes beyond the transport block of the RBs
\* allocated to them have RB counts of this interval at most one apart.
C36_RoundRobinFair ==
    (obs.kind = "schedule" /\ obs.sched.allocated) =>
        \A k1, k2 \in DOMAIN obs.sched.at_loop :
            (/\ BytesUnsent(obs.sched.at_loop[k1].queue)
                    > bytes_out_of(World, obs.sched.alloc, k1)
             /\ BytesUnsent(obs.sched.at_loop[k2].queue)
                    > bytes_out_of(World, obs.sched.alloc, k2)) =>
                RbsOf(obs.sched.alloc, k1) - RbsOf(obs.sched.alloc, k2) <= 1


\* The bearers that the scheduler has passed over since at least as many
\* TTIs before stop_time as there are bearers, and that have pending bytes.
Starved ==
    {k \in DOMAIN history.passed_over \cap DOMAIN bearers :
        /\ pending_size(bearers[k]) > 0
        /\ history.passed_over[k] + Cardinality(DOMAIN bearers) <= cfg.stop_time}

\* C37: under Round-Robin scheduling with num_rbs >= 1 and no transmission
\* errors, a bearer that keeps pending bytes gets an RB in some later TTI:
\* at the end of a run no bearer has been passed over, while others were
\* served, in every TTI since one that had later TTIs for all the bearers.
C37_NoStarvation ==
    (phase = "done" /\ cfg.rtx_threshold = 0 /\ cfg.num_rbs >= 1) => Starved = {}

\* A state in which the next event is generate_packet, at the current
\* time, of an active application whose packets and sessions are no time
\* apart: the handler adds its next event at the current time again.
SelfFeeding ==
    /\ phase = "running"
    /\ events # << >>
    /\ Head(events).kind = "generate_packet"
    /\ Head(events).time = now
    /\ LET a == apps[Head(events).app]
       IN  /\ a.active
           /\ now <= a.stop_time
           /\ <<a.ue, a.bearer>> \in DOMAIN bearers
           /\ a.packet_interval = 0
           /\ a.session_interval = 0
    /\ \E i \in 1..Len(events) : events[i].kind = "end_simulation"

\* The run does not leave the SelfFeeding states: a dispatch in one of them
\* leads to another, with end_simulation still in the event list.
SelfFeedingStays == [][SelfFeeding => SelfFeeding']_vars

\* C38: whatever the intervals between the packets and the sessions of the
\* applications, the run dispatches end_simulation and returns: it never is
\* in a state from which it dispatches generate_packet at the same time for
\* ever.
C38_Terminates == ~SelfFeeding

=============================================================================
